---- MODULE Spec2Model ----
(***************************************************************************)
(* The daemon control process: daemonCLI construction (host list          *)
(* normalisation, TLS policy), start() with its deferred cleanups, the    *)
(* listener resolution loop, the API serve tasks and the shutdown signal. *)
(* Strings are sequences of one-character strings so that strings.Cut and *)
(* sort.Strings are computed, not assumed.                                *)
(***************************************************************************)
EXTENDS Integers, Sequences, FiniteSets, TLC

\* ------------------------------------------------------------------ bounds
MaxHosts == 2
MaxStopCalls == 2
MaxReloads == 2

\* ----------------------------------------------------------------- strings
\* Byte values of the characters the host strings use (Go compares bytes).
Code(c) ==
  CASE c = "/" -> 47 [] c = "1" -> 49 [] c = "2" -> 50 [] c = ":" -> 58
    [] c = "[" -> 91 [] c = "]" -> 93 [] c = "a" -> 97 [] c = "c" -> 99
    [] c = "d" -> 100 [] c = "f" -> 102 [] c = "i" -> 105 [] c = "n" -> 110
    [] c = "p" -> 112 [] c = "s" -> 115 [] c = "t" -> 116 [] c = "u" -> 117
    [] c = "x" -> 120

\* Go's string "<": bytewise, a proper prefix is smaller.
StrLess(a, b) ==
  \E k \in 1..Len(b) :
    /\ k - 1 <= Len(a)
    /\ \A m \in 1..(k - 1) : a[m] = b[m]
    /\ \/ k > Len(a)
       \/ Code(a[k]) < Code(b[k])

Sep == <<":", "/", "/">>

\* Index of the first occurrence of "://" in s, 0 when there is none.
SepIndex(s) ==
  LET hits == { i \in 1..(Len(s) - 2) : SubSeq(s, i, i + 2) = Sep }
  IN IF hits = {} THEN 0 ELSE CHOOSE i \in hits : \A j \in hits : i <= j

\* strings.Cut(s, "://")
Cut(s) ==
  LET i == SepIndex(s)
  IN IF i = 0 THEN [before |-> s, after |-> <<>>, ok |-> FALSE]
     ELSE [before |-> SubSeq(s, 1, i - 1), after |-> SubSeq(s, i + 3, Len(s)), ok |-> TRUE]

Tcp == <<"t", "c", "p">>
Unix == <<"u", "n", "i", "x">>
Fd == <<"f", "d">>

\* Host strings of the model.
H_Empty == <<>>
H_UnixDefault == Unix \o Sep
H_Unix == Unix \o Sep \o <<"/", "s">>
H_TcpLoop == Tcp \o Sep \o <<"[", ":", ":", "1", "]", ":", "2">>
H_TcpPub == Tcp \o Sep \o <<"[", ":", ":", "2", "]", ":", "2">>
H_BarePub == <<"[", ":", ":", "2", "]", ":", "2">>
H_Fd == Fd \o Sep
H_BadProto == <<"x">> \o Sep \o <<"a">>
Localhost == <<"l", "o", "c", "a", "l", "h", "o", "s", "t">>
H_TcpLocalhost == Tcp \o Sep \o Localhost \o <<":", "2">>

DefaultUnixSocket == <<"/", "s">>

\* What -H may hold before parsing, and what cfg.Hosts may hold when
\* loadListeners is called on a configuration that was not normalised.
RawHosts == {H_Empty, H_UnixDefault, H_Unix, H_TcpLoop, H_TcpPub, H_BarePub, H_Fd, H_BadProto}
LoadHosts == {H_Unix, H_TcpLoop, H_TcpPub, H_TcpLocalhost, H_Fd, H_BarePub}

SeqsUpTo(S, n) == UNION { [1..k -> S] : k \in 0..n }

\* dopts.ParseHost: [host |-> normalised "proto://addr", ok |-> parsed]
ParseHost(h) ==
  LET c == Cut(h)
  IN CASE h = <<>> -> [host |-> Unix \o Sep \o DefaultUnixSocket, ok |-> TRUE]
       [] ~c.ok -> [host |-> Tcp \o Sep \o h, ok |-> TRUE]
       [] c.before = Unix /\ c.after = <<>> -> [host |-> Unix \o Sep \o DefaultUnixSocket, ok |-> TRUE]
       [] c.before \in {Unix, Tcp, Fd} -> [host |-> h, ok |-> TRUE]
       [] OTHER -> [host |-> <<>>, ok |-> FALSE]

\* sort.Strings, by insertion.
RECURSIVE InsertSorted(_, _)
InsertSorted(s, x) ==
  IF s = <<>> THEN <<x>>
  ELSE IF StrLess(x, Head(s)) THEN <<x>> \o s
  ELSE <<Head(s)>> \o InsertSorted(Tail(s), x)

RECURSIVE SortStrings(_)
SortStrings(s) ==
  IF s = <<>> THEN <<>> ELSE InsertSorted(SortStrings(Tail(s)), Head(s))

Range(s) == { s[i] : i \in 1..Len(s) }

\* The loop of normalizeHosts: parse each entry, skip the ones already seen.
\* acc is [hosts, ok]; the loop returns at the first entry that does not parse.
RECURSIVE ParseDedup(_, _)
ParseDedup(in, acc) ==
  IF in = <<>> THEN [hosts |-> acc, ok |-> TRUE]
  ELSE LET p == ParseHost(Head(in))
       IN IF ~p.ok THEN [hosts |-> <<>>, ok |-> FALSE]
          ELSE IF p.host \in Range(acc) THEN ParseDedup(Tail(in), acc)
          ELSE ParseDedup(Tail(in), Append(acc, p.host))

normalizeHosts_NoSort(cfgHosts) ==
  LET in == IF Len(cfgHosts) = 0 THEN <<H_Empty>> ELSE cfgHosts
  IN ParseDedup(in, <<>>)

\* normalizeHosts: [hosts |-> the new cfg.Hosts, ok |-> no parse error]
normalizeHosts(cfgHosts) ==
  LET in == IF Len(cfgHosts) = 0 THEN <<H_Empty>> ELSE cfgHosts
      r == ParseDedup(in, <<>>)
  IN IF r.ok THEN [hosts |-> SortStrings(r.hosts), ok |-> TRUE] ELSE r

\* -------------------------------------------------------------- TLS policy
DefaultTLSValue == FALSE
Tri == {"nil", "true", "false"}

\* A variant in which --tlsverify does not turn TLS on.
ConfTLS_NoForce(flagTLS, flagTLSVerify) == flagTLS

\* loadDaemonCliConfig, the TLS part: flags are "nil" when not changed.
ConfTLS(flagTLS, flagTLSVerify) ==
  IF flagTLSVerify # "nil" THEN "true" ELSE flagTLS

ConfTLSVerify(flagTLS, flagTLSVerify) ==
  IF flagTLSVerify = "nil" /\ ConfTLS(flagTLS, flagTLSVerify) # "nil"
  THEN ConfTLS(flagTLS, flagTLSVerify) ELSE flagTLSVerify

\* newAPIServerTLSConfig: "nil" (no TLS) or the ClientAuth of the tls.Config.
ClientAuthOf(tls, tlsVerify) ==
  IF tls = "true"
  THEN IF tlsVerify = "nil" \/ tlsVerify = "true"
       THEN "RequireAndVerifyClientCert" ELSE "NoClientCert"
  ELSE "nil"

\* A variant that takes an unset --tls as an accepted posture.
checkTLSAuthOK_DefaultOK(tls, tlsVerify) == TRUE

checkTLSAuthOK(tls, tlsVerify) ==
  IF tls = "nil" THEN DefaultTLSValue
  ELSE IF tls = "false" THEN TRUE
  ELSE IF tlsVerify = "nil" THEN FALSE
  ELSE TRUE

\* net.SplitHostPort on "[host]:port" and "host:port"
LastColon(s) ==
  LET hits == { i \in 1..Len(s) : s[i] = ":" }
  IN IF hits = {} THEN 0 ELSE CHOOSE i \in hits : \A j \in hits : j <= i

SplitHostPort(addr) ==
  LET i == LastColon(addr)
  IN IF i = 0 THEN [host |-> <<>>, ok |-> FALSE]
     ELSE IF Len(addr) > 0 /\ addr[1] = "["
          THEN IF i > 2 /\ addr[i - 1] = "]"
               THEN [host |-> SubSeq(addr, 2, i - 2), ok |-> TRUE]
               ELSE [host |-> <<>>, ok |-> FALSE]
          ELSE [host |-> SubSeq(addr, 1, i - 1), ok |-> TRUE]

\* A variant that recognises no loopback address.
IsLoopbackIP_Never(host) == FALSE

\* net.ParseIP(host).IsLoopback() for the literals of the model.
IsLoopbackIP(host) == host = <<":", ":", "1">>


\* ------------------------------------------------------------------ errors
\* An error is the sequence of its messages, outermost first; nil is <<>>.
Nil == <<>>
Wrap(e, msg) == IF e = Nil THEN Nil ELSE <<msg>> \o e
ErrServerClosed == <<"http: Server closed">>
AcceptErr(j) == <<"accept error", ToString(j)>>

\* ------------------------------------------------------------------- state
VARIABLES
  pc,            \* where the caller of newDaemonCLI / start() is
  Hosts,         \* cfg.Hosts (conf.Hosts = opts.Hosts before normalizeHosts)
  TLS,           \* cfg.TLS: "nil" when unset (before loadDaemonCliConfig: the --tls flag)
  TLSVerify,     \* cfg.TLSVerify (before loadDaemonCliConfig: the --tlsverify flag)
  apiTLSConfig,  \* cli.apiTLSConfig: "nil" or its ClientAuth
  rl,            \* what reloadConfig works on: [conf, authz, debugOn, flagDebug, call, phase, new, before, last, n],
                 \* and `early`, the reload signals that came before the trap
  stopOnce,      \* cli.stopOnce has run
  apiShutdown,   \* number of close(cli.apiShutdown) executed
  stopCalls,     \* number of calls of cli.stop()
  ll,            \* locals of loadListeners: [i, phase, hosts, lss]
  trace,         \* what loadListeners did, in order: [ev, i, secs]
  sockets,       \* every socket bound so far: [proto, addr, open]
  lss,           \* start(): the listeners returned by loadListeners (socket indexes)
  hosts,         \* start(): the host list returned by loadListeners
  llErr,         \* start(): the error returned by loadListeners
  defers,        \* start(): the deferred calls, last registered last
  failedAt,      \* the startup step that failed, "" when none did
  result,        \* the error start() returns (valid when pc = "returned")
  sub,           \* subsystems: [supervisor, core, cluster, buildkit], and for the
                 \* supervisor cfg.ContainerdAddr and the bounds WaitTimeout got
  dHosts,        \* the daemon core's stored hosts (d.StoreHosts)
  done,          \* one-off effects that have happened
  ctxCancelled,  \* the main context of start() is cancelled
  http,          \* httpServer: [inShutdown, handler, stoppedBy]
  shutdownTask,  \* the goroutine waiting on cli.apiShutdown
  shutdownCtxCancelled, \* apiShutdownCtx is cancelled
  timer,         \* the 5 s grace timer of the deferred function
  busy,          \* a request in flight outlives the grace window of Shutdown
  task,          \* the serve task of each listener
  taskErr,       \* what httpServer.Serve returned in each task
  errAPI,        \* the buffer of the errAPI channel
  errAPIClosed,  \* close(errAPI) has run
  firstSender,   \* the task whose select on errAPI ran first, 0 when none
  sd,            \* shutdownDaemon: [timeout, hangs, core, ctx, verdict]
  gc,            \* Daemon.GetContainer: the store, the replica, the call and its result
  wcf,           \* the buffered response writer: ready, buf, flushed, what reached the
                 \* underlying writer, and the calls made so far
  bh,            \* a build request in postBuild: position, the request's q, the
                 \* notVerboseBuffer, the WriteFlusher's flag, the error and the result
  px             \* a proxyCommand: the child, mu, exitedWait, waitError, the waiter, the Stop calls

auxVars == <<gc, wcf, bh, px>>
cfgVars == <<Hosts, TLS, TLSVerify, apiTLSConfig, rl, auxVars>>
stopVars == <<stopOnce, apiShutdown, stopCalls>>
llVars == <<ll, trace, sockets>>
startVars == <<lss, hosts, llErr, defers, failedAt, result, sub, dHosts, done, ctxCancelled>>
srvVars == <<http, shutdownTask, shutdownCtxCancelled, timer, busy>>
taskVars == <<task, taskErr, errAPI, errAPIClosed, firstSender>>
vars == <<pc, cfgVars, stopVars, llVars, startVars, srvVars, taskVars, sd>>

NoSub ==
  [supervisor |-> "none", core |-> "none", cluster |-> "none", buildkit |-> "none",
   containerdAddr |-> "unset", waits |-> <<>>]
NoHTTP == [inShutdown |-> FALSE, handler |-> FALSE, stoppedBy |-> "none"]
NoSD == [timeout |-> 0, hangs |-> FALSE, core |-> "none", ctx |-> "none", verdict |-> "none"]
NoLL == [i |-> 1, phase |-> "cut", hosts |-> <<>>, lss |-> <<>>]

\* ------------------------------------------------- Daemon.GetContainer
\* Container IDs, container names and the identifiers callers pass.
ContainerIDs == {<<"a", "a">>, <<"a", "b">>, <<"b", "a">>}
ContainerNames == {<<"/", "a">>, <<"/", "a", "b">>}
Identifiers ==
  {<<>>, <<"a">>, <<"b">>, <<"a", "a">>, <<"a", "b">>, <<"b", "b">>,
   <<"/", "a">>, <<"/", "a", "b">>, <<"/", "b">>}

HasPrefix(s, p) == Len(p) <= Len(s) /\ SubSeq(s, 1, Len(p)) = p

\* A (container, error) pair: ctr is <<>> for nil, err is "nil" for nil.
Ret(c, e) == [ctr |-> c, err |-> e]
NoGC ==
  [containers |-> {}, index |-> {}, names |-> [n \in ContainerNames |-> <<>>],
   arg |-> <<>>, ret |-> Ret(<<>>, "nil"), calls |-> 0]

\* daemon.containers.Get(id): the live store, nil when the ID is not in it.
containersGet(db, id) == IF id \in db.containers THEN <<id>> ELSE <<>>

\* containersReplica.Snapshot().GetID(fullName)
GetID(db, fullName) ==
  IF fullName \in ContainerNames /\ db.names[fullName] # <<>>
  THEN Ret(db.names[fullName], "nil")
  ELSE Ret(<<>>, "name is not reserved")

\* containersReplica.GetByPrefix(s): the one indexed ID that starts with s.
GetByPrefix(db, s) ==
  LET m == {id \in db.index : HasPrefix(id, s)}
  IN IF s = <<>> THEN Ret(<<>>, "invalid: empty prefix")
     ELSE IF m = {} THEN Ret(<<>>, "not found")
     ELSE IF Cardinality(m) > 1 THEN Ret(<<>>, "invalid: ambiguous")
     ELSE Ret(CHOOSE id \in m : TRUE, "nil")

GetByName(db, name) ==
  IF name = <<>> THEN Ret(<<>>, "No container name supplied")
  ELSE LET fullName == IF name[1] # "/" THEN <<"/">> \o name ELSE name
           id == GetID(db, fullName)
       IN IF id.err # "nil" THEN Ret(<<>>, "Could not find entity")
          ELSE IF containersGet(db, id.ctr) = <<>>
               THEN Ret(<<>>, "Could not find container for entity id")
               ELSE Ret(containersGet(db, id.ctr), "nil")

\* A variant that returns whatever the store holds for the prefix's ID.
GetContainer_Unchecked(db, prefixOrName) ==
  IF prefixOrName = <<>> THEN Ret(<<>>, "invalid: identifier")
  ELSE IF containersGet(db, prefixOrName) # <<>>
       THEN Ret(containersGet(db, prefixOrName), "nil")
  ELSE IF GetByName(db, prefixOrName).ctr # <<>>
       THEN Ret(GetByName(db, prefixOrName).ctr, "nil")
  ELSE LET p == GetByPrefix(db, prefixOrName)
       IN IF p.err # "nil" THEN Ret(<<>>, p.err)
          ELSE Ret(containersGet(db, p.ctr), "nil")

GetContainer(db, prefixOrName) ==
  IF prefixOrName = <<>> THEN Ret(<<>>, "invalid: identifier")
  ELSE IF containersGet(db, prefixOrName) # <<>>
       THEN Ret(containersGet(db, prefixOrName), "nil")
  ELSE IF GetByName(db, prefixOrName).ctr # <<>>
       THEN Ret(GetByName(db, prefixOrName).ctr, "nil")
  ELSE LET p == GetByPrefix(db, prefixOrName)
       IN IF p.err # "nil" THEN Ret(<<>>, p.err)
          ELSE IF containersGet(db, p.ctr) = <<>>
               THEN Ret(<<>>, "not found")
               ELSE Ret(containersGet(db, p.ctr), "nil")

\* ---------------------------------------------------------------- wcf
MaxWrites == 2
MaxFlushes == 2
MaxNotifies == 2

\* The struct (ready, buf, flushed); out is what the underlying Writer and
\* flusher got, in order: a chunk number for a Write, 0 for a Flush; req is
\* every chunk handed to Write, in order; op is the underlying call a Write
\* or Flush still has to make after it released the mutex; early counts the
\* Flush calls that returned without forwarding.
NoWcf ==
  [ready |-> FALSE, buf |-> <<>>, flushed |-> FALSE, out |-> <<>>, req |-> <<>>,
   op |-> "none", b |-> 0, writes |-> 0, flushes |-> 0, early |-> 0, notifies |-> 0]

\* A variant of Write that never buffers.
wcfWrite_Unbuffered(w, b) ==
  [w EXCEPT !.op = "write", !.b = b, !.req = Append(@, b), !.writes = @ + 1]

\* Write, up to w.mu.Unlock(): buffer the bytes when not ready.
wcfWrite(w, b) ==
  IF ~w.ready
  THEN [w EXCEPT !.buf = Append(@, b), !.req = Append(@, b), !.writes = @ + 1]
  ELSE [w EXCEPT !.op = "write", !.b = b, !.req = Append(@, b), !.writes = @ + 1]

\* A variant of Flush that remembers nothing when not ready.
wcfFlush_Forget(w) ==
  IF ~w.ready
  THEN [w EXCEPT !.flushes = @ + 1, !.early = @ + 1]
  ELSE [w EXCEPT !.flushed = TRUE, !.flushes = @ + 1, !.op = "flush"]

\* Flush, up to w.mu.Unlock(): flushed = true, return when not ready.
wcfFlush(w) ==
  IF ~w.ready
  THEN [w EXCEPT !.flushed = TRUE, !.flushes = @ + 1, !.early = @ + 1]
  ELSE [w EXCEPT !.flushed = TRUE, !.flushes = @ + 1, !.op = "flush"]

\* The rest of Write and Flush: w.Writer.Write(b), w.flusher.Flush().
wcfThrough(w) ==
  [w EXCEPT !.out = Append(@, IF w.op = "write" THEN w.b ELSE 0), !.op = "none"]

wcfFlushed(w) == w.flushed

\* notify, all of it under the mutex: the first call copies the buffer,
\* forwards a remembered flush and sets ready; later calls do nothing.
wcfNotify(w) ==
  IF ~w.ready
  THEN [w EXCEPT !.out = @ \o w.buf \o (IF w.flushed THEN <<0>> ELSE <<>>),
                 !.buf = <<>>, !.ready = TRUE, !.notifies = @ + 1]
  ELSE [w EXCEPT !.notifies = @ + 1]

\* ---------------------------------------------------------- postBuild
MaxChunks == 2

\* What the handler writes besides the build's chunks 1..MaxChunks.
ErrorChunk == MaxChunks + 1
ImageIDChunk == MaxChunks + 2
DumpChunk == MaxChunks + 3

\* No build request. wrapped: ww is the wcf, not the ResponseWriter; q: the
\* request asks for a quiet build; nvb: notVerboseBuffer; wf: the
\* WriteFlusher's Flushed(); call: the Flush that ends a WriteFlusher.Write;
\* err: the error that happened; ret: what postBuild returned.
NoBH ==
  [pc |-> "idle", wrapped |-> FALSE, q |-> FALSE, nvb |-> <<>>, wf |-> FALSE,
   call |-> "none", chunks |-> 0, err |-> "none", ret |-> "none"]

\* A Write or Flush on the wcf by the handler's goroutine, its underlying
\* call included.
Direct(w) == IF w.op # "none" THEN wcfThrough(w) ELSE w

\* ww.Write(b) and ww.Flush(): the wcf, or the ResponseWriter itself.
wwWrite(wrapped, w, b) ==
  IF wrapped
  THEN Direct(wcfWrite(w, b))
  ELSE [w EXCEPT !.out = Append(@, b), !.req = Append(@, b), !.writes = @ + 1]

wwFlush(wrapped, w) ==
  IF wrapped
  THEN Direct(wcfFlush(w))
  ELSE [w EXCEPT !.out = Append(@, 0), !.flushes = @ + 1]

\* ------------------------------------------------------- proxyCommand
MaxProxyStops == 2
Stops == 1..MaxProxyStops

\* What cmd.Wait() can return for the child.
ChildErrors == {"nil", "exit status 1", "signal: interrupt"}
ErrProcessDone == "os: process already finished"

\* proc: "none" (p.cmd.Process is nil), "running", "exited" (not yet waited
\* for) or "reaped". mu: <<"free", 0>>, <<"waiter", 0>> or <<"stop", i>>.
NoPX ==
  [proc |-> "none", childErr |-> "nil", exitedWait |-> FALSE, waitError |-> "nil",
   mu |-> <<"free", 0>>, waits |-> 0, reapedBy |-> "none", waiter |-> "none",
   stop |-> [i \in Stops |-> [pc |-> "idle", ret |-> "nil", sawExited |-> FALSE]]]

\* The reloadable part of a configuration: the authorization plugins,
\* cfg.Debug, and cfg.IsValueSet("debug") (the key is in the configuration
\* file; without it cfg.Debug is what the --debug flag says).
Plugins == {"p", "q"}
Configs == [plugins : SUBSET Plugins, Debug : BOOLEAN, debugSet : BOOLEAN]

\* What reloadConfig reads and writes when the daemon runs under cfg:
\* d.Config(), the plugins of cli.authzMiddleware, debug.IsEnabled().
Snapshot(r) == [conf |-> r.conf, authz |-> r.authz, debugOn |-> r.debugOn]
\* flagDebug is the --debug flag of the process, which a reload cannot change.
RunningUnder(cfg) ==
  [conf |-> cfg, authz |-> cfg.plugins, debugOn |-> cfg.Debug, call |-> "none",
   flagDebug |-> IF cfg.debugSet THEN FALSE ELSE cfg.Debug,
   phase |-> "idle", new |-> cfg, last |-> "none", n |-> 0, early |-> 0,
   before |-> [conf |-> cfg, authz |-> cfg.plugins, debugOn |-> cfg.Debug]]
NoRL == RunningUnder([plugins |-> {}, Debug |-> FALSE, debugSet |-> FALSE])

\* Everything but the configuration, as a fresh process has it.
Fresh ==
  /\ stopOnce = FALSE /\ apiShutdown = 0 /\ stopCalls = 0
  /\ ll = NoLL /\ trace = <<>> /\ sockets = <<>>
  /\ lss = <<>> /\ hosts = <<>> /\ llErr = Nil /\ defers = <<>>
  /\ failedAt = "" /\ result = Nil /\ sub = NoSub /\ dHosts = <<>>
  /\ done = {} /\ ctxCancelled = FALSE
  /\ http = NoHTTP /\ shutdownTask = "none" /\ shutdownCtxCancelled = FALSE
  /\ timer = "none" /\ busy = FALSE
  /\ task = <<>> /\ taskErr = <<>> /\ errAPI = <<>> /\ errAPIClosed = FALSE
  /\ firstSender = 0 /\ sd = NoSD

\* No call of the daemon's other components is under way.
AuxIdle == gc = NoGC /\ wcf = NoWcf /\ bh = NoBH /\ px = NoPX

\* A process whose configuration has no authorization plugin and no debug key.
FreshDefault == Fresh /\ rl = NoRL /\ AuxIdle

\* Before newDaemonCLI: the options as parsed from the command line.
Init ==
  /\ pc = "newDaemonCLI"
  /\ Hosts \in SeqsUpTo(RawHosts, MaxHosts)
  /\ TLS \in Tri /\ TLSVerify \in Tri
  /\ apiTLSConfig = "nil"
  /\ FreshDefault

\* newDaemonCLI: loadDaemonCliConfig (TLS flags, normalizeHosts), then
\* newAPIServerTLSConfig, which may reject the certificate files.
newDaemonCLI ==
  /\ pc = "newDaemonCLI"
  /\ LET n == normalizeHosts(Hosts)
         t == ConfTLS(TLS, TLSVerify)
         v == ConfTLSVerify(TLS, TLSVerify)
     IN IF ~n.ok
        THEN /\ pc' = "exit"
             /\ UNCHANGED <<Hosts, TLS, TLSVerify, apiTLSConfig>>
        ELSE /\ Hosts' = n.hosts
             /\ TLS' = t
             /\ TLSVerify' = v
             /\ \/ /\ apiTLSConfig' = ClientAuthOf(t, v)
                   /\ pc' = "start"
                \/ /\ t = "true"
                   /\ apiTLSConfig' = "nil"
                   /\ pc' = "exit"
  /\ UNCHANGED <<rl, auxVars, stopVars, llVars, startVars, srvVars, taskVars, sd>>

\* cli.stop(): sync.Once around close(cli.apiShutdown).
stop_NoOnce ==
  /\ pc \notin {"newDaemonCLI", "exit"}
  /\ stopCalls < MaxStopCalls
  /\ stopCalls' = stopCalls + 1
  /\ stopOnce' = TRUE
  /\ apiShutdown' = apiShutdown + 1
  /\ UNCHANGED <<pc, cfgVars, llVars, startVars, srvVars, taskVars, sd>>

stop ==
  /\ pc \notin {"newDaemonCLI", "exit"}
  /\ stopCalls < MaxStopCalls
  /\ stopCalls' = stopCalls + 1
  /\ IF stopOnce
     THEN UNCHANGED <<stopOnce, apiShutdown>>
     ELSE /\ stopOnce' = TRUE
          /\ apiShutdown' = apiShutdown + 1
  /\ UNCHANGED <<pc, cfgVars, llVars, startVars, srvVars, taskVars, sd>>

\* A receive on cli.apiShutdown proceeds.
ShutdownRequested == apiShutdown >= 1

\* start() returns e because the startup step `step` failed.
Fail(step, e) ==
  /\ failedAt' = step
  /\ result' = e
  /\ pc' = "unwind"

\* start(), up to the pid file: privilege checks, umask, daemon root,
\* exec root, pid file (with its deferred removal).
PrepareFS ==
  /\ pc = "start"
  /\ \/ /\ Fail("prepare", <<"cannot prepare the daemon root">>)
        /\ UNCHANGED <<defers, done>>
     \/ /\ pc' = "loadListeners"
        /\ done' = done \cup {"pidfile"}
        /\ defers' = Append(defers, "pidfile")
        /\ UNCHANGED <<failedAt, result>>
  /\ UNCHANGED <<cfgVars, stopVars, llVars, lss, hosts, llErr, sub, dHosts,
                 ctxCancelled, srvVars, taskVars, sd>>

\* ---------------------------------------------------------- loadListeners
Ev(e, i, secs) == [ev |-> e, i |-> i, secs |-> secs]

\* listeners.Init: the sockets one address yields (a systemd "fd://" address
\* yields one per passed descriptor, two here).
SocketsOf(proto, addr) ==
  IF proto = Fd
  THEN <<[proto |-> proto, addr |-> addr, open |-> TRUE],
         [proto |-> proto, addr |-> addr, open |-> TRUE]>>
  ELSE <<[proto |-> proto, addr |-> addr, open |-> TRUE]>>

\* A variant of the return that hands back the lists built so far on an error.
LLReturn_Partial(l, h, e) ==
  /\ lss' = IF e = Nil THEN l ELSE ll.lss
  /\ hosts' = IF e = Nil THEN h ELSE ll.hosts
  /\ llErr' = e
  /\ pc' = "afterLoad"

\* loadListeners returns (l, h, e) to start().
LLReturn(l, h, e) ==
  /\ lss' = l
  /\ hosts' = h
  /\ llErr' = e
  /\ pc' = "afterLoad"

\* Variants of the test: always true, and negated.
authEnabled_AnyConfig == TRUE
authEnabled_Inverted == apiTLSConfig # "RequireAndVerifyClientCert"

\* authEnabled := tlsConfig != nil && tlsConfig.ClientAuth == tls.RequireAndVerifyClientCert
authEnabled == apiTLSConfig = "RequireAndVerifyClientCert"

\* The empty-list check, then strings.Cut on entry i.
LL_Cut ==
  /\ pc = "loadListeners"
  /\ ll.phase = "cut"
  /\ IF Len(Hosts) = 0
     THEN /\ LLReturn(<<>>, <<>>, <<"no hosts configured">>)
          /\ UNCHANGED ll
     ELSE LET c == Cut(Hosts[ll.i])
          IN IF ~c.ok
             THEN /\ LLReturn(<<>>, <<>>, <<"bad format, expected PROTO://ADDR">>)
                  /\ UNCHANGED ll
             ELSE /\ ll' = [ll EXCEPT !.phase =
                              IF c.before = Tcp
                              THEN IF authEnabled THEN "reserve" ELSE "warn"
                              ELSE "bind"]
                  /\ UNCHANGED <<pc, lss, hosts, llErr>>
  /\ UNCHANGED <<cfgVars, stopVars, trace, sockets, defers, failedAt, result, sub,
                 dHosts, done, ctxCancelled, srvVars, taskVars, sd>>

\* tcp without verified client certificates: the warnings and the 1 s
\* sleep, then the 15 s sleep when the posture was not chosen explicitly
\* and the address is not a loopback one.
LL_Warn ==
  /\ pc = "loadListeners"
  /\ ll.phase = "warn"
  /\ LET addr == Cut(Hosts[ll.i]).after
         sp == SplitHostPort(addr)
         first == <<Ev("warn", ll.i, 0), Ev("sleep", ll.i, 1)>>
     IN IF checkTLSAuthOK(TLS, TLSVerify)
        THEN /\ trace' = trace \o first
             /\ ll' = [ll EXCEPT !.phase = "reserve"]
             /\ UNCHANGED <<pc, lss, hosts, llErr>>
        ELSE IF ~sp.ok
        THEN /\ trace' = trace \o first
             /\ LLReturn(<<>>, <<>>, <<"error parsing tcp address">>)
             /\ UNCHANGED ll
        ELSE /\ trace' = trace \o first \o
                  (IF sp.host # Localhost
                      /\ ~IsLoopbackIP(sp.host)
                   THEN <<Ev("deprecation", ll.i, 0), Ev("sleep", ll.i, 15)>>
                   ELSE <<>>)
             /\ ll' = [ll EXCEPT !.phase = "reserve"]
             /\ UNCHANGED <<pc, lss, hosts, llErr>>
  /\ UNCHANGED <<cfgVars, stopVars, sockets, defers, failedAt, result, sub,
                 dHosts, done, ctxCancelled, srvVars, taskVars, sd>>

\* A variant that goes on to bind when the allocator refuses.
LL_Reserve_Ignored ==
  /\ pc = "loadListeners"
  /\ ll.phase = "reserve"
  /\ \/ /\ ll' = [ll EXCEPT !.phase = "bind"]
        /\ UNCHANGED trace
     \/ /\ trace' = Append(trace, Ev("reserve", ll.i, 0))
        /\ ll' = [ll EXCEPT !.phase = "bind"]
  /\ UNCHANGED <<pc, lss, hosts, llErr>>
  /\ UNCHANGED <<cfgVars, stopVars, sockets, defers, failedAt, result, sub,
                 dHosts, done, ctxCancelled, srvVars, taskVars, sd>>

\* allocateDaemonPort for a tcp entry; the allocator may refuse.
LL_Reserve ==
  /\ pc = "loadListeners"
  /\ ll.phase = "reserve"
  /\ \/ /\ LLReturn(<<>>, <<>>, <<"port allocation failed">>)
        /\ UNCHANGED <<ll, trace>>
     \/ /\ trace' = Append(trace, Ev("reserve", ll.i, 0))
        /\ ll' = [ll EXCEPT !.phase = "bind"]
        /\ UNCHANGED <<pc, lss, hosts, llErr>>
  /\ UNCHANGED <<cfgVars, stopVars, sockets, defers, failedAt, result, sub,
                 dHosts, done, ctxCancelled, srvVars, taskVars, sd>>

\* listeners.Init for entry i; on success the address and the sockets are
\* appended and the loop goes on, or returns after the last entry.
LL_Bind ==
  /\ pc = "loadListeners"
  /\ ll.phase = "bind"
  /\ LET c == Cut(Hosts[ll.i])
         new == SocketsOf(c.before, c.after)
         ids == [k \in 1..Len(new) |-> Len(sockets) + k]
     IN \/ /\ LLReturn(<<>>, <<>>, <<"listen failed">>)
           /\ UNCHANGED <<ll, trace, sockets>>
        \/ /\ sockets' = sockets \o new
           /\ trace' = Append(trace, Ev("bind", ll.i, 0))
           /\ IF ll.i = Len(Hosts)
              THEN /\ LLReturn(ll.lss \o ids, Append(ll.hosts, c.after), Nil)
                   /\ ll' = [ll EXCEPT !.hosts = Append(@, c.after), !.lss = @ \o ids]
              ELSE /\ ll' = [i |-> ll.i + 1, phase |-> "cut",
                             hosts |-> Append(ll.hosts, c.after), lss |-> ll.lss \o ids]
                   /\ UNCHANGED <<pc, lss, hosts, llErr>>
  /\ UNCHANGED <<cfgVars, stopVars, defers, failedAt, result, sub,
                 dHosts, done, ctxCancelled, srvVars, taskVars, sd>>

\* A variant that goes on to the HTTP server without the containerd bootstrap.
AfterLoad_SkipBootstrap ==
  /\ pc = "afterLoad"
  /\ IF llErr # Nil
     THEN Fail("loadListeners", Wrap(llErr, "failed to load listeners"))
     ELSE /\ pc' = "httpServer"
          /\ UNCHANGED <<failedAt, result>>
  /\ UNCHANGED <<cfgVars, stopVars, llVars, lss, hosts, llErr, defers, sub, dHosts,
                 done, ctxCancelled, srvVars, taskVars, sd>>

\* start(): lss, hosts, err := loadListeners(...); if err != nil { return }
AfterLoad ==
  /\ pc = "afterLoad"
  /\ IF llErr # Nil
     THEN Fail("loadListeners", Wrap(llErr, "failed to load listeners"))
     ELSE /\ pc' = "initContainerd"
          /\ UNCHANGED <<failedAt, result>>
  /\ UNCHANGED <<cfgVars, stopVars, llVars, lss, hosts, llErr, defers, sub, dHosts,
                 done, ctxCancelled, srvVars, taskVars, sd>>

\* ------------------------------------------------------- start(): startup
\* A variant that defers a stop of the supervisor also when it was adopted.
InitContainerd_DeferAlways ==
  /\ pc = "initContainerd"
  /\ \/ /\ Fail("initContainerd", <<"failed to start containerd">>)
        /\ ctxCancelled' = TRUE
        /\ UNCHANGED <<sub, defers>>
     \/ /\ sub' = [sub EXCEPT !.supervisor = "external", !.containerdAddr = "system"]
        /\ defers' = defers \o <<"containerd", "cancel">>
        /\ pc' = "httpServer"
        /\ UNCHANGED <<failedAt, result, ctxCancelled>>
     \/ /\ sub' = [sub EXCEPT !.supervisor = "managed", !.containerdAddr = "managed"]
        /\ defers' = defers \o <<"containerd", "cancel">>
        /\ pc' = "httpServer"
        /\ UNCHANGED <<failedAt, result, ctxCancelled>>
  /\ UNCHANGED <<cfgVars, stopVars, llVars, lss, hosts, llErr, dHosts, done,
                 srvVars, taskVars, sd>>

\* ctx, cancel := WithCancel(ctx); initContainerd: an existing containerd is
\* adopted (its address is stored, no stop function), or a managed one is
\* started, its address stored and its WaitTimeout deferred.
InitContainerd ==
  /\ pc = "initContainerd"
  /\ \/ /\ Fail("initContainerd", <<"failed to start containerd">>)
        /\ ctxCancelled' = TRUE
        /\ UNCHANGED <<sub, defers>>
     \/ /\ sub' = [sub EXCEPT !.supervisor = "external", !.containerdAddr = "system"]
        /\ defers' = Append(defers, "cancel")
        /\ pc' = "httpServer"
        /\ UNCHANGED <<failedAt, result, ctxCancelled>>
     \/ /\ sub' = [sub EXCEPT !.supervisor = "managed", !.containerdAddr = "managed"]
        /\ defers' = defers \o <<"containerd", "cancel">>
        /\ pc' = "httpServer"
        /\ UNCHANGED <<failedAt, result, ctxCancelled>>
  /\ UNCHANGED <<cfgVars, stopVars, llVars, lss, hosts, llErr, dHosts, done,
                 srvVars, taskVars, sd>>

\* A variant that installs the reload trap together with the stop trap.
CreateHTTPServer_TrapReload ==
  /\ pc = "httpServer"
  /\ shutdownTask' = "waiting"
  /\ done' = done \cup {"trap", "reloadTrap"}
  /\ defers' = Append(defers, "http")
  /\ pc' = "preNotifyReady"
  /\ UNCHANGED <<cfgVars, stopVars, llVars, lss, hosts, llErr, failedAt, result, sub,
                 dHosts, ctxCancelled, http, shutdownCtxCancelled, timer, busy,
                 taskVars, sd>>

\* The http.Server, the shutdown context, trap.Trap(cli.stop), the goroutine
\* that waits for cli.apiShutdown, and the deferred stop of the server.
CreateHTTPServer ==
  /\ pc = "httpServer"
  /\ shutdownTask' = "waiting"
  /\ done' = done \cup {"trap"}
  /\ defers' = Append(defers, "http")
  /\ pc' = "preNotifyReady"
  /\ UNCHANGED <<cfgVars, stopVars, llVars, lss, hosts, llErr, failedAt, result, sub,
                 dHosts, ctxCancelled, http, shutdownCtxCancelled, timer, busy,
                 taskVars, sd>>

PreNotifyReady ==
  /\ pc = "preNotifyReady"
  /\ \/ /\ Fail("preNotifyReady", <<"preNotifyReady failed">>)
     \/ /\ pc' = "tracing"
        /\ UNCHANGED <<failedAt, result>>
  /\ UNCHANGED <<cfgVars, stopVars, llVars, lss, hosts, llErr, defers, sub, dHosts,
                 done, ctxCancelled, srvVars, taskVars, sd>>

\* A variant that does not register the CDI driver.
SetupTracingAndCDI_NoCDI ==
  /\ pc = "tracing"
  /\ done' = done \cup {"tracing"}
  /\ pc' = "initMiddlewares"
  /\ UNCHANGED <<cfgVars, stopVars, llVars, lss, hosts, llErr, defers, failedAt,
                 result, sub, dHosts, ctxCancelled, srvVars, taskVars, sd>>

\* The tracer provider, the plugin store, and the CDI driver when enabled.
SetupTracingAndCDI ==
  /\ pc = "tracing"
  /\ done' = done \cup {"tracing", "cdi"}
  /\ pc' = "initMiddlewares"
  /\ UNCHANGED <<cfgVars, stopVars, llVars, lss, hosts, llErr, defers, failedAt,
                 result, sub, dHosts, ctxCancelled, srvVars, taskVars, sd>>

InitMiddlewares ==
  /\ pc = "initMiddlewares"
  /\ \/ /\ Fail("initMiddlewares", Wrap(<<"invalid API version">>, "failed to start API server"))
        /\ UNCHANGED done
     \/ /\ done' = done \cup {"middlewares"}
        /\ pc' = "newDaemon"
        /\ UNCHANGED <<failedAt, result>>
  /\ UNCHANGED <<cfgVars, stopVars, llVars, lss, hosts, llErr, defers, sub, dHosts,
                 ctxCancelled, srvVars, taskVars, sd>>

\* daemon.NewDaemon, then d.StoreHosts(hosts).
NewDaemon ==
  /\ pc = "newDaemon"
  /\ \/ /\ Fail("newDaemon", Wrap(<<"daemon error">>, "failed to start daemon"))
        /\ UNCHANGED <<sub, dHosts>>
     \/ /\ sub' = [sub EXCEPT !.core = "running"]
        /\ dHosts' = hosts
        /\ pc' = "validateAuthz"
        /\ UNCHANGED <<failedAt, result>>
  /\ UNCHANGED <<cfgVars, stopVars, llVars, lss, hosts, llErr, defers, done,
                 ctxCancelled, srvVars, taskVars, sd>>

\* validateAuthzPlugins, then cli.d = d.
ValidateAuthz ==
  /\ pc = "validateAuthz"
  /\ \/ /\ Fail("validateAuthz", Wrap(<<"plugin not found">>, "failed to validate authorization plugin"))
        /\ UNCHANGED done
     \/ /\ done' = done \cup {"cli.d"}
        /\ pc' = "metrics"
        /\ UNCHANGED <<failedAt, result>>
  /\ UNCHANGED <<cfgVars, stopVars, llVars, lss, hosts, llErr, defers, sub, dHosts,
                 ctxCancelled, srvVars, taskVars, sd>>

StartMetricsServer_BestEffort ==
  /\ pc = "metrics"
  /\ \/ /\ failedAt' = "metrics"
        /\ pc' = "cluster"
        /\ UNCHANGED <<result, done>>
     \/ /\ done' = done \cup {"metrics"}
        /\ pc' = "cluster"
        /\ UNCHANGED <<failedAt, result>>
  /\ UNCHANGED <<cfgVars, stopVars, llVars, lss, hosts, llErr, defers, sub, dHosts,
                 ctxCancelled, srvVars, taskVars, sd>>

StartMetricsServer ==
  /\ pc = "metrics"
  /\ \/ /\ Fail("metrics", Wrap(<<"metrics listen error">>, "failed to start metrics server"))
        /\ UNCHANGED done
     \/ /\ done' = done \cup {"metrics"}
        /\ pc' = "cluster"
        /\ UNCHANGED <<failedAt, result>>
  /\ UNCHANGED <<cfgVars, stopVars, llVars, lss, hosts, llErr, defers, sub, dHosts,
                 ctxCancelled, srvVars, taskVars, sd>>

\* A variant that restarts the swarm containers although c.Start failed.
StartCluster_RestartAnyway ==
  /\ pc = "cluster"
  /\ \/ /\ Fail("cluster", Wrap(<<"cluster.New error">>, "failed to start cluster component"))
        /\ UNCHANGED <<sub, done>>
     \/ /\ sub' = [sub EXCEPT !.cluster = "created"]
        /\ done' = done \cup {"restartSwarm"}
        /\ Fail("cluster", Wrap(<<"cluster start error">>, "failed to start cluster component"))
     \/ /\ sub' = [sub EXCEPT !.cluster = "started"]
        /\ done' = done \cup {"restartSwarm"}
        /\ pc' = "buildkit"
        /\ UNCHANGED <<failedAt, result>>
  /\ UNCHANGED <<cfgVars, stopVars, llVars, lss, hosts, llErr, defers, dHosts,
                 ctxCancelled, srvVars, taskVars, sd>>

\* createAndStartCluster (cluster.New, d.SetCluster, c.Start), then
\* d.RestartSwarmContainers on success.
StartCluster ==
  /\ pc = "cluster"
  /\ \/ /\ Fail("cluster", Wrap(<<"cluster.New error">>, "failed to start cluster component"))
        /\ UNCHANGED <<sub, done>>
     \/ /\ sub' = [sub EXCEPT !.cluster = "created"]
        /\ Fail("cluster", Wrap(<<"cluster start error">>, "failed to start cluster component"))
        /\ UNCHANGED done
     \/ /\ sub' = [sub EXCEPT !.cluster = "started"]
        /\ done' = done \cup {"restartSwarm"}
        /\ pc' = "buildkit"
        /\ UNCHANGED <<failedAt, result>>
  /\ UNCHANGED <<cfgVars, stopVars, llVars, lss, hosts, llErr, defers, dHosts,
                 ctxCancelled, srvVars, taskVars, sd>>

\* initBuildkit: it may fail before buildkit.New succeeded, or after (then
\* the builder exists and the returned close function does nothing).
InitBuildkit ==
  /\ pc = "buildkit"
  /\ \/ /\ Fail("buildkit", Wrap(<<"error creating buildkit instance">>, "error initializing buildkit"))
        /\ UNCHANGED sub
     \/ /\ sub' = [sub EXCEPT !.buildkit = "created"]
        /\ Fail("buildkit", Wrap(<<"failed to create builder backend">>, "error initializing buildkit"))
     \/ /\ sub' = [sub EXCEPT !.buildkit = "running"]
        /\ pc' = "routers"
        /\ UNCHANGED <<failedAt, result>>
  /\ UNCHANGED <<cfgVars, stopVars, llVars, lss, hosts, llErr, defers, dHosts, done,
                 ctxCancelled, srvVars, taskVars, sd>>

\* A variant that leaves the handler of the server unset.
AssembleRouters_NoHandler ==
  /\ pc = "routers"
  /\ done' = done \cup {"notifications", "reloadTrap", "notifyReady"}
  /\ pc' = "serve"
  /\ UNCHANGED <<cfgVars, stopVars, llVars, lss, hosts, llErr, defers, failedAt,
                 result, sub, dHosts, ctxCancelled, http, shutdownTask,
                 shutdownCtxCancelled, timer, busy, taskVars, sd>>

\* buildRouters, httpServer.Handler = ..., ProcessClusterNotifications,
\* setupConfigReloadTrap, notifyReady.
AssembleRouters ==
  /\ pc = "routers"
  /\ http' = [http EXCEPT !.handler = TRUE]
  /\ done' = done \cup {"notifications", "reloadTrap", "notifyReady"}
  /\ pc' = "serve"
  /\ UNCHANGED <<cfgVars, stopVars, llVars, lss, hosts, llErr, defers, failedAt,
                 result, sub, dHosts, ctxCancelled, shutdownTask, shutdownCtxCancelled,
                 timer, busy, taskVars, sd>>

\* ------------------------------------------------------- start(): serving
Tasks == 1..Len(task)

\* A variant that starts one task per host instead of one per listener.
StartServing_PerHost ==
  /\ pc = "serve"
  /\ task' = [j \in 1..Len(hosts) |-> "serving"]
  /\ taskErr' = [j \in 1..Len(hosts) |-> Nil]
  /\ pc' = "wait"
  /\ UNCHANGED <<cfgVars, stopVars, llVars, startVars, srvVars, errAPI, errAPIClosed,
                 firstSender, sd>>

\* for _, ls := range lss { apiWG.Add(1); go func(ls) {...}(ls) }
\* A variant that starts no serve task once the server is shutting down.
StartServing_SkipWhenStopped ==
  /\ pc = "serve"
  /\ task' = IF http.inShutdown THEN <<>> ELSE [j \in 1..Len(lss) |-> "serving"]
  /\ taskErr' = IF http.inShutdown THEN <<>> ELSE [j \in 1..Len(lss) |-> Nil]
  /\ pc' = "wait"
  /\ UNCHANGED <<cfgVars, stopVars, llVars, startVars, srvVars, errAPI, errAPIClosed,
                 firstSender, sd>>

StartServing ==
  /\ pc = "serve"
  /\ task' = [j \in 1..Len(lss) |-> "serving"]
  /\ taskErr' = [j \in 1..Len(lss) |-> Nil]
  /\ pc' = "wait"
  /\ UNCHANGED <<cfgVars, stopVars, llVars, startVars, srvVars, errAPI, errAPIClosed,
                 firstSender, sd>>

\* if err := httpServer.Serve(ls); err != http.ErrServerClosed { ... }
IsFatal_Always(err) == TRUE

IsFatal(err) == err # ErrServerClosed

\* httpServer.Serve(lss[j]) returns err; Serve closes its listener on return.
ServeReturns(j, err) ==
  /\ taskErr' = [taskErr EXCEPT ![j] = err]
  /\ task' = [task EXCEPT ![j] = IF IsFatal(err) THEN "failed" ELSE "done"]
  /\ sockets' = [sockets EXCEPT ![lss[j]].open = FALSE]
  /\ UNCHANGED <<pc, cfgVars, stopVars, ll, trace, startVars, srvVars, errAPI,
                 errAPIClosed, firstSender, sd>>

\* The server is shutting down (Shutdown or Close): Serve returns ErrServerClosed.
ServeClosed(j) ==
  /\ task[j] = "serving"
  /\ http.inShutdown
  /\ ServeReturns(j, ErrServerClosed)

\* Accept fails on a server that is not shutting down: Serve returns the error.
ServeFails(j) ==
  /\ task[j] = "serving"
  /\ ~http.inShutdown
  /\ ServeReturns(j, AcceptErr(j))

\* select { case errAPI <- err: default: } on the capacity-one channel.
SendErr_LastWins(j) ==
  /\ task[j] = "failed"
  /\ errAPI' = <<taskErr[j]>>
  /\ firstSender' = IF firstSender = 0 THEN j ELSE firstSender
  /\ task' = [task EXCEPT ![j] = "done"]
  /\ UNCHANGED <<pc, cfgVars, stopVars, llVars, startVars, srvVars, taskErr,
                 errAPIClosed, sd>>

SendErr(j) ==
  /\ task[j] = "failed"
  /\ errAPI' = IF Len(errAPI) < 1 THEN Append(errAPI, taskErr[j]) ELSE errAPI
  /\ firstSender' = IF firstSender = 0 THEN j ELSE firstSender
  /\ task' = [task EXCEPT ![j] = "done"]
  /\ UNCHANGED <<pc, cfgVars, stopVars, llVars, startVars, srvVars, taskErr,
                 errAPIClosed, sd>>

\* The goroutine: <-cli.apiShutdown, then httpServer.Shutdown(apiShutdownCtx)
\* starts: the server is marked as shutting down and its listeners are closed.
ShutdownBegin ==
  /\ shutdownTask = "waiting"
  /\ ShutdownRequested
  /\ shutdownTask' = "draining"
  /\ http' = [http EXCEPT !.inShutdown = TRUE,
                          !.stoppedBy = IF @ = "none" THEN "Shutdown" ELSE @]
  /\ sockets' = [k \in 1..Len(sockets) |->
                   IF \E j \in Tasks : lss[j] = k /\ task[j] = "serving"
                   THEN [sockets[k] EXCEPT !.open = FALSE] ELSE sockets[k]]
  /\ busy' \in IF Len(task) > 0 /\ http.stoppedBy = "none" THEN BOOLEAN ELSE {FALSE}
  /\ UNCHANGED <<pc, cfgVars, stopVars, ll, trace, startVars, shutdownCtxCancelled,
                 timer, taskVars, sd>>

\* Shutdown returns when no request is in flight or its context is
\* cancelled (then its error is logged); close(apiShutdownDone).
ShutdownEnd ==
  /\ shutdownTask = "draining"
  /\ ~busy \/ shutdownCtxCancelled
  /\ shutdownTask' = "done"
  /\ done' = IF busy THEN done \cup {"log: Error shutting down http server"} ELSE done
  /\ UNCHANGED <<pc, cfgVars, stopVars, llVars, lss, hosts, llErr, defers, failedAt,
                 result, sub, dHosts, ctxCancelled, http, shutdownCtxCancelled, timer,
                 busy, taskVars, sd>>

\* time.AfterFunc(5*time.Second, apiShutdownCancel) fires.
GraceSeconds == 5

\* A variant whose timer fires without cancelling the shutdown context.
TimerFires_NoCancel ==
  /\ timer = "armed"
  /\ timer' = "fired"
  /\ UNCHANGED <<pc, cfgVars, stopVars, llVars, startVars, http, shutdownTask,
                 shutdownCtxCancelled, busy, taskVars, sd>>

TimerFires ==
  /\ timer = "armed"
  /\ timer' = "fired"
  /\ shutdownCtxCancelled' = TRUE
  /\ UNCHANGED <<pc, cfgVars, stopVars, llVars, startVars, http, shutdownTask,
                 busy, taskVars, sd>>

\* apiWG.Wait(); close(errAPI)
WaitAPI_ReturnEarly ==
  /\ pc = "wait"
  /\ \/ /\ \A j \in Tasks : task[j] = "done"
        /\ errAPIClosed' = TRUE
        /\ pc' = "cleanup"
        /\ UNCHANGED result
     \/ /\ Len(errAPI) > 0
        /\ \A j \in Tasks : task[j] = "done"
        /\ errAPIClosed' = TRUE
        /\ result' = Wrap(Head(errAPI), "shutting down due to ServeAPI error")
        /\ pc' = "unwind"
  /\ UNCHANGED <<cfgVars, stopVars, llVars, lss, hosts, llErr, defers, failedAt, sub,
                 dHosts, done, ctxCancelled, srvVars, task, taskErr, errAPI,
                 firstSender, sd>>

WaitAPI ==
  /\ pc = "wait"
  /\ \A j \in Tasks : task[j] = "done"
  /\ errAPIClosed' = TRUE
  /\ pc' = "cleanup"
  /\ UNCHANGED <<cfgVars, stopVars, llVars, startVars, srvVars, task, taskErr, errAPI,
                 firstSender, sd>>

\* ------------------------------------------------------ start(): teardown
\* c.Cleanup(); notifyStopping()
ClusterCleanup ==
  /\ pc = "cleanup"
  /\ sub' = [sub EXCEPT !.cluster = "cleaned"]
  /\ done' = done \cup {"notifyStopping"}
  /\ pc' = "shutdownDaemon"
  /\ UNCHANGED <<cfgVars, stopVars, llVars, lss, hosts, llErr, defers, failedAt,
                 result, dHosts, ctxCancelled, srvVars, taskVars, sd>>

\* d.ShutdownTimeout() as configured: negative is "no deadline".
ShutdownTimeouts == {-1, 15}

\* shutdownDaemon: the bounding context, and the goroutine running
\* d.Shutdown(ctx), which may return or block for ever.
SD_Begin ==
  /\ pc = "shutdownDaemon"
  /\ \E t \in ShutdownTimeouts, h \in BOOLEAN :
       sd' = [timeout |-> t, hangs |-> h, core |-> "running", ctx |-> "live",
              verdict |-> "none"]
  /\ sub' = [sub EXCEPT !.core = "shuttingDown"]
  /\ pc' = "shutdownDaemonWait"
  /\ UNCHANGED <<cfgVars, stopVars, llVars, lss, hosts, llErr, defers, failedAt,
                 result, dHosts, done, ctxCancelled, srvVars, taskVars>>

\* d.Shutdown(ctx) returns; defer cancel().
CoreShutdownReturns ==
  /\ sd.core = "running"
  /\ ~sd.hangs
  /\ sd' = [sd EXCEPT !.core = "returned",
                      !.ctx = IF @ = "live" THEN "Canceled" ELSE @]
  /\ sub' = [sub EXCEPT !.core = "shutdown"]
  /\ UNCHANGED <<pc, cfgVars, stopVars, llVars, lss, hosts, llErr, defers, failedAt,
                 result, dHosts, done, ctxCancelled, srvVars, taskVars>>

\* A variant that sets a deadline whatever the sign of the timeout.
SD_Deadline_AnyTimeout ==
  /\ sd.ctx = "live"
  /\ sd' = [sd EXCEPT !.ctx = "DeadlineExceeded"]
  /\ UNCHANGED <<pc, cfgVars, stopVars, llVars, startVars, srvVars, taskVars>>

\* The deadline of context.WithTimeout passes.
SD_Deadline ==
  /\ sd.ctx = "live"
  /\ sd.timeout >= 0
  /\ sd' = [sd EXCEPT !.ctx = "DeadlineExceeded"]
  /\ UNCHANGED <<pc, cfgVars, stopVars, llVars, startVars, srvVars, taskVars>>

\* A variant that reports a clean shutdown whatever ended the context.
SD_End_AlwaysClean ==
  /\ pc = "shutdownDaemonWait"
  /\ sd.ctx \in {"Canceled", "DeadlineExceeded"}
  /\ sd' = [sd EXCEPT !.verdict = "clean"]
  /\ pc' = "shutdownBuildKit"
  /\ UNCHANGED <<cfgVars, stopVars, llVars, startVars, srvVars, taskVars>>

\* A variant that does not wait for the context to be done.
SD_End_NoWait ==
  /\ pc = "shutdownDaemonWait"
  /\ sd' = [sd EXCEPT !.verdict = IF sd.ctx = "DeadlineExceeded" THEN "forced" ELSE "clean"]
  /\ pc' = "shutdownBuildKit"
  /\ UNCHANGED <<cfgVars, stopVars, llVars, startVars, srvVars, taskVars>>

\* <-ctx.Done(); the forced / clean log line.
SD_End ==
  /\ pc = "shutdownDaemonWait"
  /\ sd.ctx \in {"Canceled", "DeadlineExceeded"}
  /\ sd' = [sd EXCEPT !.verdict = IF sd.ctx = "DeadlineExceeded" THEN "forced" ELSE "clean"]
  /\ pc' = "shutdownBuildKit"
  /\ UNCHANGED <<cfgVars, stopVars, llVars, startVars, srvVars, taskVars>>

\* shutdownBuildKit(): bk.Close(), whose error is only logged.
\* A variant in which a failed bk.Close() makes start() return its error.
ShutdownBuildKit_FailAborts ==
  /\ pc = "shutdownBuildKit"
  /\ sub' = [sub EXCEPT !.buildkit = "closed"]
  /\ \/ /\ pc' = "cancel"
        /\ UNCHANGED <<done, result>>
     \/ /\ done' = done \cup {"log: Failed to close buildkit"}
        /\ result' = <<"Failed to close buildkit">>
        /\ pc' = "unwind"
  /\ UNCHANGED <<cfgVars, stopVars, llVars, lss, hosts, llErr, defers, failedAt,
                 dHosts, ctxCancelled, srvVars, taskVars, sd>>

\* shutdownBuildKit(): bk.Close(), whose error is only logged.
ShutdownBuildKit ==
  /\ pc = "shutdownBuildKit"
  /\ sub' = [sub EXCEPT !.buildkit = "closed"]
  /\ done' \in {done, done \cup {"log: Failed to close buildkit"}}
  /\ pc' = "cancel"
  /\ UNCHANGED <<cfgVars, stopVars, llVars, lss, hosts, llErr, defers, failedAt,
                 result, dHosts, ctxCancelled, srvVars, taskVars, sd>>

\* A variant in which the shutdown context is a child of the main context.
CancelMain_Propagates ==
  /\ pc = "cancel"
  /\ ctxCancelled' = TRUE
  /\ shutdownCtxCancelled' = TRUE
  /\ pc' = "result"
  /\ UNCHANGED <<cfgVars, stopVars, llVars, lss, hosts, llErr, defers, failedAt,
                 result, sub, dHosts, done, http, shutdownTask, timer, busy,
                 taskVars, sd>>

\* cancel()
CancelMain ==
  /\ pc = "cancel"
  /\ ctxCancelled' = TRUE
  /\ pc' = "result"
  /\ UNCHANGED <<cfgVars, stopVars, llVars, lss, hosts, llErr, defers, failedAt,
                 result, sub, dHosts, done, srvVars, taskVars, sd>>

\* if err, ok := <-errAPI; ok { return Wrap(err) }; otelShutdown (its error
\* is only logged); return nil
ReturnResult ==
  /\ pc = "result"
  /\ IF Len(errAPI) > 0
     THEN /\ result' = Wrap(Head(errAPI), "shutting down due to ServeAPI error")
          /\ errAPI' = Tail(errAPI)
          /\ UNCHANGED done
     ELSE /\ result' = Nil
          /\ done' \in {done \cup {"otelShutdown"},
                        done \cup {"otelShutdown", "log: Failed to shutdown OTEL tracing"}}
          /\ UNCHANGED errAPI
  /\ pc' = "unwind"
  /\ UNCHANGED <<cfgVars, stopVars, llVars, lss, hosts, llErr, defers, failedAt, sub,
                 dHosts, ctxCancelled, srvVars, task, taskErr, errAPIClosed,
                 firstSender, sd>>

\* ------------------------------------------------- start(): deferred calls
Top(s) == s[Len(s)]
Pop(s) == SubSeq(s, 1, Len(s) - 1)

\* A variant that takes the graceful branch whether or not stop() was called.
Defer_HTTP_AlwaysGraceful ==
  /\ pc = "unwind"
  /\ defers # <<>> /\ Top(defers) = "http"
  /\ timer' = "armed"
  /\ pc' = "deferWait"
  /\ UNCHANGED <<defers, http>>
  /\ UNCHANGED <<cfgVars, stopVars, llVars, lss, hosts, llErr, failedAt, result, sub,
                 dHosts, done, ctxCancelled, shutdownTask, shutdownCtxCancelled,
                 busy, taskVars, sd>>

\* The deferred function of the HTTP server. After cli.stop(): arm the 5 s
\* timer and wait for the shutdown goroutine. Otherwise httpServer.Close().
Defer_HTTP_NoTimer ==
  /\ pc = "unwind"
  /\ defers # <<>> /\ Top(defers) = "http"
  /\ IF ShutdownRequested
     THEN /\ pc' = "deferWait"
          /\ UNCHANGED <<defers, http, timer>>
     ELSE /\ http' = [http EXCEPT !.inShutdown = TRUE,
                                  !.stoppedBy = IF @ = "none" THEN "Close" ELSE @]
          /\ defers' = Pop(defers)
          /\ UNCHANGED <<pc, timer>>
  /\ UNCHANGED <<cfgVars, stopVars, llVars, lss, hosts, llErr, failedAt, result, sub,
                 dHosts, done, ctxCancelled, shutdownTask, shutdownCtxCancelled,
                 busy, taskVars, sd>>

Defer_HTTP ==
  /\ pc = "unwind"
  /\ defers # <<>> /\ Top(defers) = "http"
  /\ IF ShutdownRequested
     THEN /\ timer' = "armed"
          /\ pc' = "deferWait"
          /\ UNCHANGED <<defers, http>>
     ELSE /\ http' = [http EXCEPT !.inShutdown = TRUE,
                                  !.stoppedBy = IF @ = "none" THEN "Close" ELSE @]
          /\ defers' = Pop(defers)
          /\ UNCHANGED <<pc, timer>>
  /\ UNCHANGED <<cfgVars, stopVars, llVars, lss, hosts, llErr, failedAt, result, sub,
                 dHosts, done, ctxCancelled, shutdownTask, shutdownCtxCancelled,
                 busy, taskVars, sd>>

\* <-apiShutdownDone; defer tmr.Stop()
Defer_HTTPWait ==
  /\ pc = "deferWait"
  /\ shutdownTask = "done"
  /\ timer' = IF timer = "armed" THEN "stopped" ELSE timer
  /\ defers' = Pop(defers)
  /\ pc' = "unwind"
  /\ UNCHANGED <<cfgVars, stopVars, llVars, lss, hosts, llErr, failedAt, result, sub,
                 dHosts, done, ctxCancelled, http, shutdownTask, shutdownCtxCancelled,
                 busy, taskVars, sd>>

\* defer cancel()
Defer_Cancel ==
  /\ pc = "unwind"
  /\ defers # <<>> /\ Top(defers) = "cancel"
  /\ ctxCancelled' = TRUE
  /\ defers' = Pop(defers)
  /\ UNCHANGED <<pc, cfgVars, stopVars, llVars, lss, hosts, llErr, failedAt, result,
                 sub, dHosts, done, srvVars, taskVars, sd>>

\* defer waitForContainerDShutdown(10 * time.Second)
ContainerdWaitSeconds == 10

Defer_Containerd ==
  /\ pc = "unwind"
  /\ defers # <<>> /\ Top(defers) = "containerd"
  /\ sub' = [sub EXCEPT !.supervisor = "stopped",
                         !.waits = Append(@, ContainerdWaitSeconds)]
  /\ defers' = Pop(defers)
  /\ UNCHANGED <<pc, cfgVars, stopVars, llVars, lss, hosts, llErr, failedAt, result,
                 dHosts, done, ctxCancelled, srvVars, taskVars, sd>>

\* defer os.Remove(cli.Pidfile)
Defer_Pidfile ==
  /\ pc = "unwind"
  /\ defers # <<>> /\ Top(defers) = "pidfile"
  /\ done' = done \ {"pidfile"}
  /\ defers' = Pop(defers)
  /\ UNCHANGED <<pc, cfgVars, stopVars, llVars, lss, hosts, llErr, failedAt, result,
                 sub, dHosts, ctxCancelled, srvVars, taskVars, sd>>

\* Every deferred call has run: start() has returned `result`.
Return ==
  /\ pc = "unwind"
  /\ defers = <<>>
  /\ pc' = "returned"
  /\ UNCHANGED <<cfgVars, stopVars, llVars, startVars, srvVars, taskVars, sd>>

\* ------------------------------------------------------------ reloadConfig
\* The plugins the plugin store holds as authorization plugins.
PluginStore == {"p"}

\* validateAuthzPlugins: every requested plugin is found by pg.Get.
validateAuthzPlugins(requestedPlugins) == requestedPlugins \subseteq PluginStore

ReloadFailures == {"badConfig", "authzFailed", "reloadFailed"}

\* The reload signal after setupConfigReloadTrap: config.Reload re-parses
\* and validates the configuration; a bad one is logged and the handler
\* returns, a good one is handed to the reload closure.
ReloadSignal ==
  /\ "reloadTrap" \in done
  /\ pc \notin {"exit", "returned"}
  /\ rl.phase = "idle"
  /\ rl.n < MaxReloads
  /\ \/ rl' = [rl EXCEPT !.n = @ + 1, !.before = Snapshot(rl), !.last = "badConfig",
                          !.call = "none"]
     \/ \E cfg \in Configs :
          /\ cfg.debugSet \/ cfg.Debug = rl.flagDebug
          /\ rl' = [rl EXCEPT !.n = @ + 1, !.before = Snapshot(rl), !.last = "running",
                              !.call = "none", !.new = cfg, !.phase = "validateAuthz"]
  /\ UNCHANGED <<pc, Hosts, TLS, TLSVerify, apiTLSConfig, auxVars, stopVars, llVars, startVars,
                 srvVars, taskVars, sd>>

\* A reload signal before setupConfigReloadTrap: no handler is registered, so
\* reloadConfig does not run; the signal is dropped or, with the default
\* disposition, ends the process.
ReloadSignal_BeforeTrap ==
  /\ "reloadTrap" \notin done
  /\ pc \notin {"newDaemonCLI", "exit", "returned"}
  /\ rl.early < MaxReloads
  /\ rl' = [rl EXCEPT !.early = @ + 1]
  /\ pc' \in {pc, "exit"}
  /\ UNCHANGED <<Hosts, TLS, TLSVerify, apiTLSConfig, auxVars, stopVars, llVars, startVars,
                 srvVars, taskVars, sd>>

\* The closure: validateAuthzPlugins; on an error log.Fatal, which ends the
\* process.
Reload_ValidateAuthz ==
  /\ pc \notin {"exit", "returned"}
  /\ rl.phase = "validateAuthz"
  /\ IF validateAuthzPlugins(rl.new.plugins)
     THEN /\ rl' = [rl EXCEPT !.phase = "coreReload"]
          /\ UNCHANGED pc
     ELSE /\ rl' = [rl EXCEPT !.phase = "dead", !.last = "authzFailed"]
          /\ pc' = "exit"
  /\ UNCHANGED <<Hosts, TLS, TLSVerify, apiTLSConfig, auxVars, stopVars, llVars, startVars,
                 srvVars, taskVars, sd>>

\* A variant of the closure that sets the middleware's plugins before the
\* daemon core has accepted the configuration.
Reload_Core_ApplyFirst ==
  /\ pc \notin {"exit", "returned"}
  /\ rl.phase = "coreReload"
  /\ \/ rl' = [rl EXCEPT !.phase = "idle", !.last = "reloadFailed", !.authz = rl.new.plugins]
     \/ rl' = [rl EXCEPT !.phase = "apply", !.conf = rl.new, !.authz = rl.new.plugins]
  /\ UNCHANGED <<pc, Hosts, TLS, TLSVerify, apiTLSConfig, auxVars, stopVars, llVars, startVars,
                 srvVars, taskVars, sd>>

\* cli.d.Reload(cfg): the core takes the new configuration, or refuses it
\* (logged) and keeps the one it has.
Reload_Core ==
  /\ pc \notin {"exit", "returned"}
  /\ rl.phase = "coreReload"
  /\ \/ rl' = [rl EXCEPT !.phase = "idle", !.last = "reloadFailed"]
     \/ rl' = [rl EXCEPT !.phase = "apply", !.conf = rl.new]
  /\ UNCHANGED <<pc, Hosts, TLS, TLSVerify, apiTLSConfig, auxVars, stopVars, llVars, startVars,
                 srvVars, taskVars, sd>>

\* A variant that calls Enable or Disable without looking at the current state.
Reload_Apply_AlwaysToggle ==
  /\ pc \notin {"exit", "returned"}
  /\ rl.phase = "apply"
  /\ rl' = [rl EXCEPT !.phase = "report",
                      !.authz = rl.new.plugins,
                      !.debugOn = IF rl.new.debugSet THEN rl.new.Debug ELSE @,
                      !.call = IF ~rl.new.debugSet THEN "none"
                               ELSE IF rl.new.Debug THEN "Enable" ELSE "Disable"]
  /\ UNCHANGED <<pc, Hosts, TLS, TLSVerify, apiTLSConfig, auxVars, stopVars, llVars, startVars,
                 srvVars, taskVars, sd>>

\* cli.authzMiddleware.SetPlugins, then, when the new configuration has
\* the debug key: debug.Disable() or debug.Enable() when the state differs.
Reload_Apply ==
  /\ pc \notin {"exit", "returned"}
  /\ rl.phase = "apply"
  /\ rl' = [rl EXCEPT !.phase = "report",
                      !.authz = rl.new.plugins,
                      !.debugOn = IF ~rl.new.debugSet THEN @
                                  ELSE IF @ /\ ~rl.new.Debug THEN FALSE
                                  ELSE IF rl.new.Debug /\ ~@ THEN TRUE
                                  ELSE @,
                      !.call = IF ~rl.new.debugSet THEN "none"
                               ELSE IF rl.debugOn /\ ~rl.new.Debug THEN "Disable"
                               ELSE IF rl.new.Debug /\ ~rl.debugOn THEN "Enable"
                               ELSE "none"]
  /\ UNCHANGED <<pc, Hosts, TLS, TLSVerify, apiTLSConfig, auxVars, stopVars, llVars, startVars,
                 srvVars, taskVars, sd>>

\* config.Reload returned nil: the sanitized configuration is logged.
Reload_Report ==
  /\ pc \notin {"exit", "returned"}
  /\ rl.phase = "report"
  /\ rl' = [rl EXCEPT !.phase = "idle", !.last = "reloaded"]
  /\ UNCHANGED <<pc, Hosts, TLS, TLSVerify, apiTLSConfig, auxVars, stopVars, llVars, startVars,
                 srvVars, taskVars, sd>>

\* ---------------------------------------------------------- specification
LoadListeners == LL_Cut \/ LL_Warn \/ LL_Reserve \/ LL_Bind

Startup ==
  \/ PrepareFS \/ LoadListeners \/ AfterLoad \/ InitContainerd \/ CreateHTTPServer
  \/ PreNotifyReady \/ SetupTracingAndCDI \/ InitMiddlewares \/ NewDaemon
  \/ ValidateAuthz \/ StartMetricsServer \/ StartCluster \/ InitBuildkit
  \/ AssembleRouters \/ StartServing

Teardown ==
  \/ WaitAPI \/ ClusterCleanup \/ SD_Begin \/ SD_Deadline \/ SD_End
  \/ ShutdownBuildKit \/ CancelMain \/ ReturnResult

Deferred ==
  \/ Defer_HTTP \/ Defer_HTTPWait \/ Defer_Cancel \/ Defer_Containerd
  \/ Defer_Pidfile \/ Return

\* What the program does by itself once it can.
Program ==
  \/ Startup \/ Teardown \/ Deferred
  \/ ShutdownBegin \/ ShutdownEnd \/ TimerFires
  \/ \E j \in Tasks : ServeClosed(j) \/ SendErr(j)

\* What its surroundings may do: the stop signal, a failing Accept, the
\* daemon core finishing its shutdown.
Environment ==
  \/ stop
  \/ \E j \in Tasks : ServeFails(j)
  \/ CoreShutdownReturns

Run == Program \/ Environment

Next == newDaemonCLI \/ Run

Spec == Init /\ [][Next]_vars

\* A daemonCLI as newDaemonCLI returns it with --tls and --tlsverify unset.
InitStart ==
  /\ pc = "start"
  /\ \E raw \in SeqsUpTo(RawHosts, MaxHosts) :
       /\ normalizeHosts(raw).ok
       /\ Hosts = normalizeHosts(raw).hosts
  /\ TLS = "nil" /\ TLSVerify = "nil" /\ apiTLSConfig = "nil"
  /\ FreshDefault

\* start() under a fair scheduler: every goroutine that can run does,
\* timers fire, and a core shutdown that is not blocked for ever returns.
FairSpec ==
  InitStart /\ [][Run]_vars /\ WF_vars(Program) /\ WF_vars(CoreShutdownReturns)

\* loadListeners by itself, on any configuration: the host list need not
\* have gone through normalizeHosts.
InitLoad ==
  /\ pc = "loadListeners"
  /\ Hosts \in SeqsUpTo(LoadHosts, MaxHosts)
  /\ \E ft \in Tri, fv \in Tri :
       /\ TLS = ConfTLS(ft, fv)
       /\ TLSVerify = ConfTLSVerify(ft, fv)
  /\ apiTLSConfig = ClientAuthOf(TLS, TLSVerify)
  /\ FreshDefault

SpecLoad == InitLoad /\ [][LoadListeners]_vars

\* A daemon that serves on unix:///s with an adopted containerd, as start()
\* leaves it at apiWG.Wait().
ServingState ==
  /\ pc = "wait"
  /\ Hosts = <<H_Unix>> /\ TLS = "nil" /\ TLSVerify = "nil" /\ apiTLSConfig = "nil"
  /\ stopOnce = FALSE /\ apiShutdown = 0 /\ stopCalls = 0
  /\ ll = [i |-> 1, phase |-> "bind", hosts |-> <<DefaultUnixSocket>>, lss |-> <<1>>]
  /\ trace = <<Ev("bind", 1, 0)>>
  /\ sockets = SocketsOf(Unix, DefaultUnixSocket)
  /\ lss = <<1>> /\ hosts = <<DefaultUnixSocket>> /\ llErr = Nil
  /\ defers = <<"pidfile", "cancel", "http">>
  /\ failedAt = "" /\ result = Nil
  /\ sub = [supervisor |-> "external", core |-> "running", cluster |-> "started",
            buildkit |-> "running", containerdAddr |-> "system", waits |-> <<>>]
  /\ dHosts = <<DefaultUnixSocket>>
  /\ done = {"pidfile", "trap", "tracing", "cdi", "middlewares", "cli.d", "metrics",
             "restartSwarm", "notifications", "reloadTrap", "notifyReady"}
  /\ ctxCancelled = FALSE
  /\ http = [inShutdown |-> FALSE, handler |-> TRUE, stoppedBy |-> "none"]
  /\ shutdownTask = "waiting" /\ shutdownCtxCancelled = FALSE
  /\ timer = "none" /\ busy = FALSE
  /\ task = <<"serving">> /\ taskErr = <<Nil>> /\ errAPI = <<>>
  /\ errAPIClosed = FALSE /\ firstSender = 0 /\ sd = NoSD
  /\ AuxIdle

\* The serving daemon under any configuration whose plugins were validated
\* at startup.
InitReload ==
  /\ ServingState
  /\ \E cfg \in Configs, f \in BOOLEAN :
       /\ validateAuthzPlugins(cfg.plugins)
       /\ cfg.debugSet \/ cfg.Debug = f
       /\ rl = [RunningUnder(cfg) EXCEPT !.flagDebug = f]

reloadConfig ==
  \/ ReloadSignal \/ Reload_ValidateAuthz \/ Reload_Core \/ Reload_Apply
  \/ Reload_Report

SpecReload == InitReload /\ [][reloadConfig]_vars

\* start() after loadListeners has bound the default unix socket.
LoadedState ==
  /\ pc = "initContainerd"
  /\ Hosts = <<H_Unix>> /\ TLS = "nil" /\ TLSVerify = "nil" /\ apiTLSConfig = "nil"
  /\ stopOnce = FALSE /\ apiShutdown = 0 /\ stopCalls = 0
  /\ ll = [i |-> 1, phase |-> "bind", hosts |-> <<DefaultUnixSocket>>, lss |-> <<1>>]
  /\ trace = <<Ev("bind", 1, 0)>>
  /\ sockets = SocketsOf(Unix, DefaultUnixSocket)
  /\ lss = <<1>> /\ hosts = <<DefaultUnixSocket>> /\ llErr = Nil
  /\ defers = <<"pidfile">>
  /\ failedAt = "" /\ result = Nil /\ sub = NoSub /\ dHosts = <<>>
  /\ done = {"pidfile"} /\ ctxCancelled = FALSE
  /\ http = NoHTTP /\ shutdownTask = "none" /\ shutdownCtxCancelled = FALSE
  /\ timer = "none" /\ busy = FALSE
  /\ task = <<>> /\ taskErr = <<>> /\ errAPI = <<>> /\ errAPIClosed = FALSE
  /\ firstSender = 0 /\ sd = NoSD
  /\ AuxIdle

InitStartReload ==
  /\ LoadedState
  /\ \E cfg \in Configs, f \in BOOLEAN :
       /\ validateAuthzPlugins(cfg.plugins)
       /\ cfg.debugSet \/ cfg.Debug = f
       /\ rl = [RunningUnder(cfg) EXCEPT !.flagDebug = f]

\* The rest of the startup, with reload signals arriving at any time.
StartupWithReload ==
  \/ InitContainerd \/ CreateHTTPServer \/ PreNotifyReady \/ SetupTracingAndCDI
  \/ InitMiddlewares \/ NewDaemon \/ ValidateAuthz \/ StartMetricsServer
  \/ StartCluster \/ InitBuildkit \/ AssembleRouters \/ StartServing
  \/ ReloadSignal_BeforeTrap \/ reloadConfig

SpecStartReload == InitStartReload /\ [][StartupWithReload]_vars

\* The daemon process itself at rest, for the checks of its other components.
Parked ==
  /\ pc = "exit"
  /\ Hosts = <<>> /\ TLS = "nil" /\ TLSVerify = "nil" /\ apiTLSConfig = "nil"
  /\ Fresh /\ rl = NoRL

daemonVars ==
  <<pc, Hosts, TLS, TLSVerify, apiTLSConfig, rl, stopVars, llVars, startVars,
    srvVars, taskVars, sd>>

\* GetContainer over every small store and replica, which need not agree.
MaxCalls == 2

InitGetContainer ==
  /\ Parked
  /\ px = NoPX /\ wcf = NoWcf /\ bh = NoBH
  /\ \E c \in SUBSET ContainerIDs, i \in SUBSET ContainerIDs,
        nm \in [ContainerNames -> ContainerIDs \cup {<<>>}] :
       gc = [NoGC EXCEPT !.containers = c, !.index = i, !.names = nm]

CallGetContainer ==
  /\ gc.calls < MaxCalls
  /\ \E p \in Identifiers :
       gc' = [gc EXCEPT !.arg = p, !.ret = GetContainer(gc, p), !.calls = @ + 1]
  /\ UNCHANGED <<daemonVars, wcf, bh, px>>

SpecGetContainer == InitGetContainer /\ [][CallGetContainer]_vars

\* ------------------------------------------------- proxyCommand: actions
pxRest == <<daemonVars, gc, wcf, bh>>

\* Start(): p.cmd.Start() fails (Process stays nil), or the child runs and
\* the goroutine that waits for it is started.
ProxyStart ==
  /\ px.proc = "none" /\ px.waiter = "none"
  /\ \/ px' = [px EXCEPT !.waiter = "notStarted"]
     \/ px' = [px EXCEPT !.proc = "running", !.waiter = "lock"]
  /\ UNCHANGED pxRest

\* The child exits, by itself or because of a signal.
ChildExits ==
  /\ px.proc = "running"
  /\ \E e \in ChildErrors : px' = [px EXCEPT !.proc = "exited", !.childErr = e]
  /\ UNCHANGED pxRest

\* The goroutine: p.mu.Lock(); if p.exitedWait == false, p.cmd.Wait() begins
\* (with the mutex held); otherwise p.mu.Unlock().
Waiter_Lock ==
  /\ px.waiter = "lock" /\ px.mu = <<"free", 0>>
  /\ IF ~px.exitedWait
     THEN px' = [px EXCEPT !.mu = <<"waiter", 0>>, !.waits = @ + 1, !.waiter = "wait"]
     ELSE px' = [px EXCEPT !.waiter = "done"]
  /\ UNCHANGED pxRest

\* The goroutine's p.cmd.Wait() returns: exitedWait = true, waitError = errWait.
Waiter_WaitReturns ==
  /\ px.waiter = "wait" /\ px.proc = "exited"
  /\ px' = [px EXCEPT !.proc = "reaped", !.reapedBy = "waiter", !.exitedWait = TRUE,
                      !.waitError = px.childErr, !.mu = <<"free", 0>>,
                      !.waiter = "done"]
  /\ UNCHANGED pxRest

\* Stop(): nil when p.cmd.Process is nil; else Process.Signal(os.Interrupt),
\* whose error (the process was already waited for) is returned.
Stop_Signal(i) ==
  /\ px.stop[i].pc = "idle" /\ px.waiter # "none"
  /\ px' = IF px.proc = "none"
           THEN [px EXCEPT !.stop[i].pc = "done"]
           ELSE IF px.proc = "reaped"
           THEN [px EXCEPT !.stop[i].pc = "done", !.stop[i].ret = ErrProcessDone]
           ELSE [px EXCEPT !.stop[i].pc = "lock"]
  /\ UNCHANGED pxRest

\* A variant of Stop that calls p.cmd.Wait() without looking at exitedWait.
Stop_Lock_NoGuard(i) ==
  /\ px.stop[i].pc = "lock" /\ px.mu = <<"free", 0>>
  /\ px' = [px EXCEPT !.mu = <<"stop", i>>, !.waits = @ + 1, !.stop[i].pc = "wait"]
  /\ UNCHANGED pxRest

\* Stop(): p.mu.Lock(); if p.exitedWait == true, errWait = p.waitError and
\* return it; otherwise p.cmd.Wait() begins (with the mutex held).
Stop_Lock(i) ==
  /\ px.stop[i].pc = "lock" /\ px.mu = <<"free", 0>>
  /\ IF px.exitedWait
     THEN px' = [px EXCEPT !.stop[i].pc = "done", !.stop[i].ret = px.waitError,
                          !.stop[i].sawExited = TRUE]
     ELSE px' = [px EXCEPT !.mu = <<"stop", i>>, !.waits = @ + 1,
                          !.stop[i].pc = "wait"]
  /\ UNCHANGED pxRest

\* Stop's p.cmd.Wait() returns: exitedWait = true (waitError is not set),
\* the error is returned.
Stop_WaitReturns(i) ==
  /\ px.stop[i].pc = "wait" /\ px.proc = "exited"
  /\ px' = [px EXCEPT !.proc = "reaped", !.reapedBy = "stop", !.exitedWait = TRUE,
                      !.mu = <<"free", 0>>, !.stop[i].pc = "done",
                      !.stop[i].ret = px.childErr]
  /\ UNCHANGED pxRest

\* ----------------------------------------------------------- wcf: actions
wcfRest == <<daemonVars, gc, bh, px>>

\* One goroutine writes and flushes, others call notify (the request body
\* hit an error or EOF, or was closed).
Wcf_Write ==
  /\ wcf.op = "none" /\ wcf.writes < MaxWrites
  /\ wcf' = wcfWrite(wcf, wcf.writes + 1)
  /\ UNCHANGED wcfRest

Wcf_Flush ==
  /\ wcf.op = "none" /\ wcf.flushes < MaxFlushes
  /\ wcf' = wcfFlush(wcf)
  /\ UNCHANGED wcfRest

Wcf_Through ==
  /\ wcf.op # "none"
  /\ wcf' = wcfThrough(wcf)
  /\ UNCHANGED wcfRest

Wcf_notify ==
  /\ wcf.notifies < MaxNotifies
  /\ wcf' = wcfNotify(wcf)
  /\ UNCHANGED wcfRest

\* wrapOutputBufferedUntilRequestRead has returned the wrapped writer.
InitWcf == Parked /\ gc = NoGC /\ px = NoPX /\ bh = NoBH /\ wcf = NoWcf

WcfNext == Wcf_Write \/ Wcf_Flush \/ Wcf_Through \/ Wcf_notify

SpecWcf == InitWcf /\ [][WcfNext]_vars

\* ----------------------------------------------------- postBuild: actions
bhRest == <<daemonVars, gc, px>>

\* output.Write(b) of the WriteFlusher: ww.Write(b) now, then its Flush.
outputWrite(b) ==
  /\ wcf' = wwWrite(bh.wrapped, wcf, b)
  /\ bh'.call = "flush"

\* The Flush that ends every WriteFlusher.Write: Flushed() is true from now
\* on, and ww is flushed.
H_OutputFlush ==
  /\ bh.call = "flush"
  /\ bh' = [bh EXCEPT !.call = "none", !.wf = TRUE]
  /\ wcf' = wwFlush(bh.wrapped, wcf)
  /\ UNCHANGED bhRest

\* newImageBuildOptions fails (errf) or not.
H_Options ==
  /\ bh.pc = "options"
  /\ \/ bh' = [bh EXCEPT !.pc = "errf", !.err = "options"]
     \/ bh' = [bh EXCEPT !.pc = "squash"]
  /\ UNCHANGED <<wcf, bhRest>>

\* Squash without experimental mode: the error is returned as it is.
H_Squash ==
  /\ bh.pc = "squash"
  /\ \/ bh' = [bh EXCEPT !.pc = "returned", !.err = "squash", !.ret = "err"]
     \/ bh' = [bh EXCEPT !.pc = "build"]
  /\ UNCHANGED <<wcf, bhRest>>

\* Build writes progress to out: the notVerboseBuffer of a quiet build,
\* output otherwise.
H_BuildOutput ==
  /\ bh.pc = "build" /\ bh.call = "none" /\ bh.chunks < MaxChunks
  /\ IF bh.q
     THEN /\ bh' = [bh EXCEPT !.nvb = Append(@, bh.chunks + 1), !.chunks = @ + 1]
          /\ UNCHANGED wcf
     ELSE /\ bh' = [bh EXCEPT !.chunks = @ + 1, !.call = "flush"]
          /\ outputWrite(bh.chunks + 1)
  /\ UNCHANGED bhRest

\* Build reads the request body up to an error or EOF, or closes it.
H_notify ==
  /\ bh.pc = "build" /\ bh.wrapped /\ wcf.notifies < MaxNotifies
  /\ wcf' = wcfNotify(wcf)
  /\ UNCHANGED <<bh, bhRest>>

H_BuildFails ==
  /\ bh.pc = "build" /\ bh.call = "none"
  /\ bh' = [bh EXCEPT !.pc = "errf", !.err = "build"]
  /\ UNCHANGED <<wcf, bhRest>>

\* Build succeeded: a quiet build prints the image ID to output.
H_BuildOK ==
  /\ bh.pc = "build" /\ bh.call = "none"
  /\ IF bh.q
     THEN /\ bh' = [bh EXCEPT !.pc = "returned", !.ret = "nil", !.call = "flush"]
          /\ outputWrite(ImageIDChunk)
     ELSE /\ bh' = [bh EXCEPT !.pc = "returned", !.ret = "nil"]
          /\ UNCHANGED wcf
  /\ UNCHANGED bhRest

\* errf, first statement: a quiet build's buffered output goes to output.
H_ErrfDump ==
  /\ bh.pc = "errf"
  /\ IF bh.q /\ bh.nvb # <<>>
     THEN /\ bh' = [bh EXCEPT !.pc = "errfCheck", !.call = "flush"]
          /\ outputWrite(DumpChunk)
     ELSE /\ bh' = [bh EXCEPT !.pc = "errfCheck"]
          /\ UNCHANGED wcf
  /\ UNCHANGED bhRest

\* A variant of the rest of errf that, once flushed, reports both ways.
H_ErrfCheck_Both ==
  /\ bh.pc = "errfCheck" /\ bh.call = "none"
  /\ IF ~bh.wf
     THEN /\ bh' = [bh EXCEPT !.pc = "returned", !.ret = "err"]
          /\ UNCHANGED wcf
     ELSE /\ bh' = [bh EXCEPT !.pc = "returned", !.ret = "err", !.call = "flush"]
          /\ outputWrite(ErrorChunk)
  /\ UNCHANGED bhRest

\* errf, the rest: return err when output was never flushed, else write
\* the formatted error to output (a failed write is only logged) and
\* return nil.
H_ErrfCheck ==
  /\ bh.pc = "errfCheck" /\ bh.call = "none"
  /\ IF ~bh.wf
     THEN /\ bh' = [bh EXCEPT !.pc = "returned", !.ret = "err"]
          /\ UNCHANGED wcf
     ELSE /\ bh' = [bh EXCEPT !.pc = "returned", !.ret = "nil", !.call = "flush"]
          /\ outputWrite(ErrorChunk)
  /\ UNCHANGED bhRest

\* A request with or without a body to read, quiet or not; ww is wrapped
\* when the body has a first byte.
InitBuild ==
  /\ Parked /\ gc = NoGC /\ px = NoPX /\ wcf = NoWcf
  /\ \E wrapped \in BOOLEAN, q \in BOOLEAN :
       bh = [NoBH EXCEPT !.pc = "options", !.wrapped = wrapped, !.q = q]

BuildNext ==
  \/ H_Options \/ H_Squash \/ H_BuildOutput \/ H_notify \/ H_BuildFails
  \/ H_BuildOK \/ H_ErrfDump \/ H_ErrfCheck \/ H_OutputFlush

SpecBuild == InitBuild /\ [][BuildNext]_vars

InitProxy == Parked /\ gc = NoGC /\ wcf = NoWcf /\ bh = NoBH /\ px = NoPX

ProxyNext ==
  \/ ProxyStart \/ ChildExits \/ Waiter_Lock \/ Waiter_WaitReturns
  \/ \E i \in Stops : Stop_Signal(i) \/ Stop_Lock(i) \/ Stop_WaitReturns(i)

SpecProxy == InitProxy /\ [][ProxyNext]_vars

\* ------------------------------------------------------------------ claims
Returned == pc = "returned"
FatalTasks == { j \in Tasks : taskErr[j] # Nil /\ taskErr[j] # ErrServerClosed }
ServeMsg == "shutting down due to ServeAPI error"

\* shutdownDaemon waits without a deadline for a core shutdown that never returns.
CoreBlocked == pc = "shutdownDaemonWait" /\ sd.timeout < 0 /\ sd.hangs

\* Every teardown step of the serving path and every deferred stop has run.
TeardownDone ==
  /\ sub.cluster = "cleaned"
  /\ sd.verdict \in {"clean", "forced"}
  /\ sub.core \in {"shuttingDown", "shutdown"}
  /\ sub.buildkit = "closed"
  /\ ctxCancelled
  /\ http.inShutdown
  /\ http.stoppedBy = "Close" \/ shutdownTask = "done"
  /\ sub.supervisor \in {"external", "stopped"}

\* C1: whatever the number of calls of stop(), cli.apiShutdown is closed
\* exactly once: never twice, closed as soon as one call has been made, never
\* open again, and a receive on it (the shutdown goroutine's) then proceeds.
C1_StopOnce ==
  /\ [](/\ apiShutdown <= 1
        /\ stopCalls = 0 => apiShutdown = 0
        /\ stopCalls >= 1 => apiShutdown = 1 /\ stopOnce
        /\ (stopCalls >= 1 /\ shutdownTask = "waiting") => ENABLED ShutdownBegin)
  /\ [][ShutdownRequested => ShutdownRequested']_vars

C1_Witness == stopCalls >= 2 /\ apiShutdown = 1 /\ shutdownTask = "done"

\* C2: when start() has returned after startup step k failed, every
\* subsystem started before k is torn down and none at or after k exists.
C2_TeardownOnFailure ==
  (Returned /\ failedAt # "") =>
    /\ sub.supervisor \in {"none", "external", "stopped"}
    /\ sub.core \in {"none", "shutdown"}
    /\ sub.cluster \in {"none", "cleaned"}
    /\ sub.buildkit \in {"none", "closed"}
    /\ failedAt = "cluster" => sub.cluster = "none"
    /\ failedAt = "buildkit" => sub.buildkit = "none"

\* C3: once a startup step has failed no serve task is ever started, and
\* start() returns a non-nil error.
C3_NoServeAfterFailure ==
  failedAt # "" => /\ task = <<>>
                   /\ Returned => result # Nil

C3_Witness == Returned /\ failedAt = "buildkit" /\ Len(lss) >= 1 /\ task = <<>>

\* C4: start() returns nil exactly when no startup step failed and every
\* serve task ended with http.ErrServerClosed.
C4_NilIffClean ==
  Returned => (result = Nil <=> (failedAt = "" /\ FatalTasks = {}))

C4_Witness ==
  /\ Returned /\ result = Nil /\ Len(task) >= 2
  /\ \A j \in Tasks : taskErr[j] = ErrServerClosed

\* C5: when a serve task reported a fatal error, start() returns that error
\* wrapped (the first one sent when there are several, see C7), and every
\* teardown step has run by then.
C5_ServeErrorTeardown ==
  (Returned /\ FatalTasks # {}) =>
    /\ result # Nil
    /\ \E j \in FatalTasks : result = Wrap(taskErr[j], ServeMsg)
    /\ TeardownDone

C5_Witness ==
  /\ Returned /\ FatalTasks # {} /\ sub.supervisor = "stopped"
  /\ http.stoppedBy = "Close"

\* C6: a fatal serve error by itself leads to start() returning that error,
\* with no stop signal needed.
C6_FatalErrorShutsDown ==
  (FatalTasks # {}) ~> ((Returned /\ result # Nil) \/ CoreBlocked)

\* C7: the errAPI channel holds at most one error, the one whose send came
\* first; a later send never blocks; start() returns the first one wrapped.
C7_FirstErrorWins ==
  /\ Len(errAPI) <= 1
  /\ \A j \in Tasks : task[j] = "failed" => ENABLED SendErr(j)
  /\ (firstSender # 0 /\ pc \in {"wait", "cleanup", "shutdownDaemon",
        "shutdownDaemonWait", "shutdownBuildKit", "cancel", "result"})
       => errAPI = <<taskErr[firstSender]>>
  /\ (Returned /\ firstSender # 0) => result = Wrap(taskErr[firstSender], ServeMsg)

C7_Witness ==
  /\ Returned /\ firstSender = 2
  /\ 1 \in FatalTasks /\ 2 \in FatalTasks
  /\ result = Wrap(AcceptErr(2), ServeMsg)

\* C8 as stated: with every listener serving, once stop() has been called
\* start() eventually returns nil (unless the core's unbounded shutdown hangs).
Serving == pc = "wait" /\ Len(task) > 0 /\ \A j \in Tasks : task[j] = "serving"

C8_Original ==
  (Serving /\ ShutdownRequested) ~> ((Returned /\ result = Nil) \/ CoreBlocked)

\* C8, amended: with every listener serving, once stop() has been called
\* every serve task returns, the teardown runs and start() returns; the
\* result is nil unless a serve task failed fatally before the server began
\* to shut down, and then it is that error wrapped.
C8_StopLeadsToReturn ==
  (Serving /\ ShutdownRequested) ~>
    \/ /\ Returned
       /\ \A j \in Tasks : task[j] = "done"
       /\ TeardownDone
       /\ result = Nil <=> FatalTasks = {}
       /\ shutdownTask = "done"
    \/ CoreBlocked

C8_Witness ==
  /\ Returned /\ result = Nil /\ failedAt = "" /\ stopCalls >= 1
  /\ busy /\ timer = "fired" /\ Len(task) >= 1

\* C9 as stated: the host list stored in the daemon core is the input
\* addresses without duplicates and in lexicographic order (read either as
\* the full specifications or as their address parts).
SortedNoDup(s) == \A i \in 1..Len(s), j \in 1..Len(s) : i < j => StrLess(s[i], s[j])
AddrOf(h) == Cut(h).after

C9_Original ==
  sub.core # "none" =>
    /\ SortedNoDup(dHosts)
    /\ \/ Range(dHosts) = Range(Hosts)
       \/ Range(dHosts) = { AddrOf(h) : h \in Range(Hosts) }

\* C9, amended: normalizeHosts leaves cfg.Hosts equal to the parsed
\* specifications without duplicates, in lexicographic order; every entry is
\* bound exactly once; the list stored in the daemon core is the address
\* part of each entry of cfg.Hosts, in the order of cfg.Hosts.
C9_NormalizedHosts ==
  /\ [][(pc = "newDaemonCLI" /\ pc' = "start") =>
          /\ SortedNoDup(Hosts')
          /\ Range(Hosts') =
               { ParseHost(h).host : h \in Range(IF Hosts = <<>> THEN <<H_Empty>> ELSE Hosts) }]_vars
  /\ [](sub.core # "none" =>
          /\ SortedNoDup(Hosts)
          /\ dHosts = [i \in 1..Len(Hosts) |-> AddrOf(Hosts[i])]
          /\ \A i \in 1..Len(Hosts) :
               Cardinality({ k \in 1..Len(trace) : trace[k] = Ev("bind", i, 0) }) = 1)

C9_Witness ==
  /\ sub.core # "none" /\ Len(dHosts) = 2
  /\ StrLess(dHosts[2], dHosts[1])

\* C10: when an entry of the host list is malformed, or its port
\* reservation or bind fails, loadListeners returns an error with no
\* listener and no host, has touched no later entry, and has closed none of
\* the sockets bound for the earlier entries.
C10_AllOrNothing ==
  /\ \A k \in 1..Len(trace) : trace[k].i <= ll.i
  /\ \A p \in 1..Len(Hosts) : ~Cut(Hosts[p]).ok => ll.i <= p
  /\ (pc = "afterLoad" /\ \E p \in 1..Len(Hosts) : ~Cut(Hosts[p]).ok) => llErr # Nil
  /\ (pc = "afterLoad" /\ llErr # Nil) =>
       /\ lss = <<>> /\ hosts = <<>>
       /\ Len(ll.hosts) = ll.i - 1
       /\ Len(sockets) = Len(ll.lss)
       /\ \A k \in 1..Len(sockets) : sockets[k].open

C10_Witness ==
  /\ pc = "afterLoad" /\ llErr = <<"bad format, expected PROTO://ADDR">>
  /\ ll.i = 2 /\ Len(sockets) >= 1 /\ sockets[1].open /\ lss = <<>>

\* ------------------------------------------- claims about loadListeners
IsTcp(i) == Cut(Hosts[i]).ok /\ Cut(Hosts[i]).before = Tcp
HostOf(i) == SplitHostPort(AddrOf(Hosts[i]))

\* Entry i is a tcp address whose host is neither "localhost" nor ::1.
NonLoopback(i) ==
  /\ IsTcp(i) /\ HostOf(i).ok
  /\ HostOf(i).host # Localhost
  /\ HostOf(i).host # <<":", ":", "1">>

\* The positions of an event of entry i in what loadListeners did.
At(e, i, secs) == { k \in 1..Len(trace) : trace[k] = Ev(e, i, secs) }
Entries == 1..Len(Hosts)

\* The warnings and the 1 s sleep of entry i, in this order, before position k.
ShortDeterrentBefore(i, k) ==
  \E a \in At("warn", i, 0), b \in At("sleep", i, 1) : a < b /\ b < k

\* The deprecation warnings and the 15 s sleep of entry i before position k.
LongDeterrentBefore(i, k) ==
  \E a \in At("deprecation", i, 0), b \in At("sleep", i, 15) : a < b /\ b < k

LongDeterrent(i) == At("deprecation", i, 0) # {} \/ At("sleep", i, 15) # {}

\* --tls=false or --tlsverify=false was given.
ExplicitOptOut == TLS = "false" \/ TLSVerify = "false"
LoadedOK == pc = "afterLoad" /\ llErr = Nil

\* C11 as stated: a non-loopback tcp entry is bound only when client
\* certificates are verified or TLS / TLS-verify was explicitly set to false.
C11_Original ==
  \A i \in Entries :
    (NonLoopback(i) /\ At("bind", i, 0) # {}) => (authEnabled \/ ExplicitOptOut)

\* C11, amended: a non-loopback tcp entry is bound without verified client
\* certificates only after the warnings and the 1 s sleep for it, and, when
\* neither TLS nor TLS-verify was explicitly set to false, only after the
\* deprecation warnings and the 15 s sleep as well.
C11_BoundOnlyAfterDeterrent ==
  \A i \in Entries : \A k \in At("bind", i, 0) :
    NonLoopback(i) =>
      \/ authEnabled
      \/ /\ ShortDeterrentBefore(i, k)
         /\ ExplicitOptOut \/ LongDeterrentBefore(i, k)

C11_Witness ==
  /\ LoadedOK /\ TLS = "nil" /\ TLSVerify = "nil"
  /\ \E i \in Entries : NonLoopback(i) /\ At("bind", i, 0) # {}
  /\ \E k \in 1..Len(sockets) : sockets[k].proto = Tcp /\ sockets[k].open

\* C12: with TLS disabled, a non-loopback tcp entry is bound only after at
\* least one warning and one sleep for that entry, and loadListeners still
\* succeeds: with well-formed entries the only errors it returns are the
\* port allocator's and the bind's.
C12_WarnAndDelayThenBind ==
  apiTLSConfig = "nil" =>
    /\ \A i \in Entries : \A k \in At("bind", i, 0) :
         NonLoopback(i) =>
           \E a \in 1..(k - 1), b \in 1..(k - 1) :
             /\ a < b
             /\ trace[a].i = i /\ trace[a].ev \in {"warn", "deprecation"}
             /\ trace[b].i = i /\ trace[b].ev = "sleep" /\ trace[b].secs >= 1
    /\ (pc = "afterLoad" /\ llErr # Nil /\ Hosts # <<>>
          /\ \A i \in Entries : Cut(Hosts[i]).ok)
         => llErr \in {<<"port allocation failed">>, <<"listen failed">>}
    /\ \A i \in Entries :
         (pc = "loadListeners" /\ ll.i = i /\ ll.phase = "warn" /\ NonLoopback(i))
           => ENABLED (LL_Warn /\ pc' = "loadListeners")

C12_Witness ==
  /\ LoadedOK /\ TLS = "false" /\ apiTLSConfig = "nil"
  /\ \E i \in Entries :
       /\ NonLoopback(i) /\ At("bind", i, 0) # {}
       /\ At("sleep", i, 1) # {} /\ At("sleep", i, 15) = {}

\* C13: when client certificates are required and verified, loadListeners
\* emits no warning and sleeps for no entry, whatever the transport and the
\* address.
VerifiedClientCerts ==
  TLS = "true" /\ TLSVerify = "true" /\ apiTLSConfig = "RequireAndVerifyClientCert"

C13_NoDeterrentWithVerification ==
  VerifiedClientCerts =>
    \A k \in 1..Len(trace) : trace[k].ev \in {"reserve", "bind"}

C13_Witness ==
  /\ LoadedOK /\ VerifiedClientCerts /\ Len(Hosts) = 2
  /\ \E i \in Entries : NonLoopback(i) /\ At("bind", i, 0) # {}
  /\ \E i \in Entries : ~IsTcp(i) /\ At("bind", i, 0) # {}

\* C18 as stated: the 15 s sleep and the deprecation warnings are applied to
\* a non-loopback entry when verification was explicitly disabled, not when
\* it was left unset, and never to a loopback entry.
C18_Original ==
  \A i \in Entries :
    At("warn", i, 0) # {} =>
      /\ (NonLoopback(i) /\ TLSVerify = "false") => LongDeterrent(i)
      /\ TLSVerify = "nil" => ~LongDeterrent(i)
      /\ ~NonLoopback(i) => ~LongDeterrent(i)

\* C18, amended: for a tcp entry without verified client certificates the
\* deprecation warnings and the 15 s sleep follow the 1 s sleep exactly when
\* the address is non-loopback and neither TLS nor TLS-verify was set; they
\* are not applied when TLS or TLS-verify was explicitly set to false, nor
\* to ::1 or "localhost", nor to any entry that got no warning.
C18_LongDeterrentWhenUnset ==
  \A i \in Entries :
    /\ At("warn", i, 0) # {} =>
         /\ LongDeterrent(i) <=> (NonLoopback(i) /\ TLS = "nil")
         /\ LongDeterrent(i) =>
              \E a \in At("sleep", i, 1), b \in At("deprecation", i, 0),
                 c \in At("sleep", i, 15) : a < b /\ b < c
    /\ At("warn", i, 0) = {} => ~LongDeterrent(i)
    /\ ExplicitOptOut => ~LongDeterrent(i)

C18_Witness ==
  /\ LoadedOK /\ TLS = "nil"
  /\ \E i \in Entries : NonLoopback(i) /\ LongDeterrent(i)
  /\ \E i \in Entries : /\ IsTcp(i) /\ HostOf(i).host \in {Localhost, <<":", ":", "1">>}
                         /\ At("sleep", i, 1) # {} /\ ~LongDeterrent(i)

\* C19: a tcp entry is bound only after its port was reserved; when the
\* reservation fails nothing is bound for that entry; a non-tcp entry is
\* bound without a reservation.
C19_ReserveBeforeBind ==
  /\ \A i \in Entries : \A k \in At("bind", i, 0) :
       IsTcp(i) => \E r \in At("reserve", i, 0) : r < k
  /\ \A i \in Entries :
       (Cut(Hosts[i]).ok /\ ~IsTcp(i)) => At("reserve", i, 0) = {}
  /\ (pc = "afterLoad" /\ llErr = <<"port allocation failed">>) =>
       /\ IsTcp(ll.i)
       /\ At("reserve", ll.i, 0) = {} /\ At("bind", ll.i, 0) = {}
  /\ \A i \in Entries :
       (At("bind", i, 0) = {} /\ ll.i = i /\ ll.phase = "bind" /\ IsTcp(i))
         => At("reserve", i, 0) # {}

C19_Witness ==
  /\ LoadedOK
  /\ \E i \in Entries : IsTcp(i) /\ At("reserve", i, 0) # {} /\ At("bind", i, 0) # {}
  /\ \E i \in Entries : ~IsTcp(i) /\ At("bind", i, 0) # {}

\* C14: for every --tls and --tlsverify in {unset, true, false}: a supplied
\* --tlsverify turns TLS on, an unset TLS-verify follows TLS, and client
\* certificates are required and verified only when TLS is on.
C14_PolicyConsistent ==
  /\ [][(pc = "newDaemonCLI" /\ pc' = "start") =>
          /\ TLSVerify # "nil" => (TLS' = "true" /\ TLSVerify' = TLSVerify)
          /\ (TLSVerify = "nil" /\ TLS # "nil") => (TLS' = TLS /\ TLSVerify' = TLS)
          /\ (TLSVerify = "nil" /\ TLS = "nil") => (TLS' = "nil" /\ TLSVerify' = "nil")
          /\ apiTLSConfig' = "RequireAndVerifyClientCert" <=>
               (TLS' = "true" /\ TLSVerify' = "true")]_vars
  /\ [](authEnabled => TLS = "true")
  /\ [](pc \notin {"newDaemonCLI", "exit"} =>
          (apiTLSConfig # "nil" <=> TLS = "true"))

C14_Witness ==
  /\ pc = "start" /\ TLS = "true" /\ TLSVerify = "false"
  /\ apiTLSConfig = "NoClientCert"

\* ---------------------------------------------- claims about reloadConfig
\* C15: when a reload fails (the new configuration is bad, the plugin
\* validation fails or the daemon core refuses it), the active
\* configuration, the middleware's plugin list and the debug state are what
\* they were when the reload began; the plugin list changes only once the
\* core has taken the new configuration.
C15_ReloadAllOrNothing ==
  /\ rl.last \in ReloadFailures => Snapshot(rl) = rl.before
  /\ rl.phase \in {"validateAuthz", "coreReload"} => Snapshot(rl) = rl.before
  /\ rl.phase \in {"report"} =>
       (rl.conf = rl.new /\ rl.authz = rl.new.plugins)

C15_Witness ==
  /\ rl.last = "reloadFailed" /\ rl.n = 2
  /\ rl.new.plugins # rl.authz /\ rl.new.debugSet /\ rl.new.Debug /\ ~rl.debugOn
  /\ rl.conf # rl.new /\ rl.authz = rl.conf.plugins

\* C16: after a reload that failed on a bad configuration or on the plugin
\* validation, the process has not exited, no shutdown has begun and every
\* listener is still served.
C16_FailedReloadNotFatal ==
  rl.last \in {"badConfig", "authzFailed"} =>
    /\ pc = "wait"
    /\ apiShutdown = 0 /\ ~http.inShutdown
    /\ \A j \in Tasks : task[j] = "serving"

\* ------------------------------------------------ claims about teardown
ReachedServing == task # <<>>
CoreShutdownBegun == sd.core # "none"
TracingFlushed == "otelShutdown" \in done

\* C17 as stated: listener tasks, cluster cleanup, core shutdown, build
\* backend close, runtime supervisor stop, tracing flush, each step
\* beginning only when the previous one has finished.
C17_Original ==
  ReachedServing =>
    /\ sub.cluster = "cleaned" => \A j \in Tasks : task[j] = "done"
    /\ CoreShutdownBegun => sub.cluster = "cleaned"
    /\ sub.buildkit = "closed" => sub.core = "shutdown"
    /\ sub.supervisor = "stopped" => sub.buildkit = "closed"
    /\ TracingFlushed => sub.supervisor \in {"external", "stopped"}

\* C17, amended: the steps begin in the order listener tasks returned,
\* cluster cleanup, core shutdown, build backend close, cancel of the main
\* context, tracing flush, wait for the managed supervisor's exit. The core
\* shutdown is waited for only up to its timeout, the tracing flush happens
\* only when start() returns nil, and the supervisor's exit is awaited in a
\* deferred call, after the tracing flush.
C17_TeardownOrder ==
  ReachedServing =>
    /\ sub.cluster = "cleaned" => (errAPIClosed /\ \A j \in Tasks : task[j] = "done")
    /\ CoreShutdownBegun => sub.cluster = "cleaned"
    /\ sub.buildkit = "closed" =>
         /\ sd.verdict \in {"clean", "forced"}
         /\ sd.verdict = "clean" => sub.core = "shutdown"
         /\ sd.verdict = "forced" => sd.timeout >= 0
    /\ ctxCancelled => sub.buildkit = "closed"
    /\ TracingFlushed => (ctxCancelled /\ result = Nil /\ FatalTasks = {})
    /\ sub.supervisor = "stopped" =>
         /\ ctxCancelled /\ pc \in {"unwind", "returned"}
         /\ result = Nil => TracingFlushed
    /\ (pc \in {"unwind", "returned"} /\ sub.supervisor = "managed")
         => "containerd" \in Range(defers)

C17_Witness ==
  /\ Returned /\ ReachedServing /\ TracingFlushed
  /\ sub.supervisor = "stopped"
  /\ sd.verdict = "forced" /\ sub.core = "shuttingDown" /\ sub.buildkit = "closed"

\* C20: one serve task is started for every bound socket, the two sockets of
\* a multi-socket address included, and cluster cleanup, core shutdown and
\* build backend close begin only when every serve task has returned.
C20_TaskPerListenerThenTeardown ==
  /\ ReachedServing =>
       /\ Len(task) = Len(lss) /\ Len(task) = Len(sockets)
       /\ \A j \in Tasks : lss[j] = j
  /\ (failedAt = "" /\ pc \in {"wait", "cleanup", "shutdownDaemon"}) => ReachedServing
  /\ (sub.cluster = "cleaned" \/ CoreShutdownBegun \/ sub.buildkit = "closed"
        \/ pc \in {"cleanup", "shutdownDaemon", "shutdownDaemonWait", "shutdownBuildKit"})
       => /\ ReachedServing
          /\ \A j \in Tasks : task[j] = "done"

C20_Witness ==
  /\ sub.buildkit = "closed" /\ Len(task) = 3 /\ Len(Hosts) = 2
  /\ \A j \in Tasks : task[j] = "done"

\* ------------------------------------- claims about the HTTP server's stop
\* The deferred function of the HTTP server runs in this step.
DeferHTTPStep ==
  /\ pc = "unwind" /\ defers # <<>> /\ Top(defers) = "http"
  /\ pc' # pc \/ defers' # defers

\* C21: when the deferred function runs and stop() was never called, the
\* server is closed with Close in that very step, with no timer and no wait
\* for the shutdown goroutine; the timer, the wait and Shutdown occur only
\* once stop() has been called.
C21_CloseWithoutStop ==
  /\ [][DeferHTTPStep =>
          IF apiShutdown = 0
          THEN /\ http'.inShutdown /\ http'.stoppedBy = "Close"
               /\ defers' = Pop(defers) /\ pc' = "unwind"
               /\ timer' = "none" /\ shutdownTask' = "waiting"
          ELSE /\ pc' = "deferWait" /\ timer' = "armed" /\ http' = http]_vars
  /\ [](timer # "none" => ShutdownRequested)
  /\ [](pc = "deferWait" => ShutdownRequested)
  /\ [](http.stoppedBy = "Shutdown" => ShutdownRequested)
  /\ []((Returned /\ stopCalls = 0 /\ "trap" \in done) =>
          /\ http.stoppedBy = "Close" /\ timer = "none" /\ shutdownTask = "waiting")

C21_Witness ==
  /\ Returned /\ stopCalls = 0 /\ failedAt = "newDaemon"
  /\ http.stoppedBy = "Close" /\ timer = "none" /\ shutdownTask = "waiting"

\* C22: when stop() was called before the deferred function ran, start()
\* waits for the shutdown goroutine with the 5 s timer armed; the timer
\* cancels the shutdown context, so the wait ends and start() returns even
\* when a request in flight never completes.
C22_GraceBoundsWait ==
  /\ (pc = "deferWait") ~> Returned
  /\ [](pc = "deferWait" => timer \in {"armed", "fired"})
  /\ []((pc = "deferWait" /\ shutdownTask = "draining" /\ busy /\ timer = "fired")
          => shutdownCtxCancelled)
  /\ [][(pc = "deferWait" /\ pc' # pc) => shutdownTask = "done"]_vars
  /\ []((Returned /\ timer # "none") => shutdownTask = "done")

C22_Witness ==
  /\ Returned /\ busy /\ timer = "fired" /\ shutdownCtxCancelled
  /\ "log: Error shutting down http server" \in done

\* C23: cancelling the main context never cancels the shutdown context; the
\* shutdown context is cancelled only by the timer of the deferred function.
C23_ShutdownCtxIndependent ==
  /\ [][ctxCancelled' # ctxCancelled => shutdownCtxCancelled' = shutdownCtxCancelled]_vars
  /\ [][shutdownCtxCancelled' # shutdownCtxCancelled =>
          (timer = "armed" /\ timer' = "fired" /\ shutdownCtxCancelled')]_vars
  /\ [](shutdownCtxCancelled => timer = "fired")

C23_Witness ==
  /\ ctxCancelled /\ ~shutdownCtxCancelled
  /\ shutdownTask = "draining" /\ busy /\ pc = "result"

\* ----------------------------------------------- claims about shutdownDaemon
\* C24: with a timeout >= 0 shutdownDaemon returns, at the deadline at the
\* latest, even when the core's Shutdown never returns; with a negative
\* timeout there is no deadline and it returns only once the core's
\* Shutdown has returned (the parent context is not cancelled while it waits).
C24_BoundedByTimeout ==
  /\ (pc = "shutdownDaemonWait" /\ sd.timeout >= 0) ~> (pc # "shutdownDaemonWait")
  /\ [](sd.timeout < 0 => sd.ctx # "DeadlineExceeded")
  /\ [](pc = "shutdownDaemonWait" => ~ctxCancelled)
  /\ [][(pc = "shutdownDaemonWait" /\ pc' # pc) =>
          \/ sd.core = "returned" /\ sd.ctx = "Canceled"
          \/ sd.timeout >= 0 /\ sd.ctx = "DeadlineExceeded"]_vars
  /\ []((CoreShutdownBegun /\ sd.timeout < 0 /\ sd.hangs) => pc = "shutdownDaemonWait")

C24_Witness ==
  /\ Returned /\ sd.hangs /\ sd.timeout = 15
  /\ sd.core = "running" /\ sd.ctx = "DeadlineExceeded"

\* C25 as stated: forced exactly when the deadline ended the context, clean
\* exactly when the core's Shutdown did, and a core Shutdown that has
\* completed when the report is made is not reported as forced.
C25_Original ==
  /\ sd.verdict = "forced" => sd.ctx = "DeadlineExceeded"
  /\ sd.verdict = "clean" => (sd.ctx = "Canceled" /\ sd.core = "returned")
  /\ (pc = "shutdownDaemonWait" /\ sd.core = "returned") => sd.ctx = "Canceled"

\* C25, amended: the report is "forced" exactly when the deadline passed
\* while the core's Shutdown was still running, and "clean" exactly when the
\* core's Shutdown returned while the context was live (always so with a
\* negative timeout); a Shutdown that returns after the deadline, be it
\* before the report is made, is still reported as forced.
C25_ForcedIffDeadlineFirst ==
  /\ [](sd.verdict # "none" =>
          /\ sd.verdict = "forced" <=> sd.ctx = "DeadlineExceeded"
          /\ sd.verdict = "clean" <=> sd.ctx = "Canceled"
          /\ sd.timeout < 0 => sd.verdict = "clean")
  /\ [](sd.ctx = "Canceled" => sd.core = "returned")
  /\ [](sd.ctx = "DeadlineExceeded" => sd.timeout >= 0)
  /\ [][(sd.ctx = "live" /\ sd'.ctx = "DeadlineExceeded") =>
          (sd.core = "running" /\ sd'.core = "running")]_vars
  /\ [][(sd.ctx = "live" /\ sd'.ctx = "Canceled") =>
          (sd.core = "running" /\ sd'.core = "returned")]_vars
  /\ [][sd.ctx \in {"Canceled", "DeadlineExceeded"} => sd'.ctx = sd.ctx]_vars

C25_Witness ==
  /\ pc = "shutdownBuildKit" /\ sd.verdict = "forced"
  /\ sd.core = "returned" /\ ~sd.hangs /\ sd.ctx = "DeadlineExceeded"

\* ------------------------------------- claims about the order of a reload
\* C26 as stated: the core gets the new configuration only after both
\* validations, the plugin list and the debug state change only after the
\* core took it, Enable / Disable are called only when the state differs,
\* and after a successful reload the debug state is the new cfg.Debug.
C26_Original ==
  /\ rl.conf # rl.before.conf =>
       (rl.last # "badConfig" /\ validateAuthzPlugins(rl.new.plugins) /\ rl.conf = rl.new)
  /\ (rl.authz # rl.before.authz \/ rl.debugOn # rl.before.debugOn \/ rl.call # "none") =>
       (rl.conf = rl.new /\ rl.phase \in {"report", "idle"})
  /\ rl.call = "Enable" => (~rl.before.debugOn /\ rl.new.Debug)
  /\ rl.call = "Disable" => (rl.before.debugOn /\ ~rl.new.Debug)
  /\ rl.last = "reloaded" => rl.debugOn = rl.new.Debug

\* C26, amended: as stated, but the debug state follows the new cfg.Debug
\* only when the new configuration has the debug key; without the key the
\* debug state is left as it was, whatever cfg.Debug is.
C26_ReloadOrder ==
  /\ rl.conf # rl.before.conf =>
       (rl.last # "badConfig" /\ validateAuthzPlugins(rl.new.plugins) /\ rl.conf = rl.new)
  /\ (rl.authz # rl.before.authz \/ rl.debugOn # rl.before.debugOn \/ rl.call # "none") =>
       (rl.conf = rl.new /\ rl.phase \in {"report", "idle"})
  /\ rl.call = "Enable" => (~rl.before.debugOn /\ rl.new.Debug /\ rl.new.debugSet)
  /\ rl.call = "Disable" => (rl.before.debugOn /\ ~rl.new.Debug /\ rl.new.debugSet)
  /\ rl.last = "reloaded" =>
       /\ rl.authz = rl.new.plugins
       /\ rl.new.debugSet => rl.debugOn = rl.new.Debug
       /\ ~rl.new.debugSet => (rl.debugOn = rl.before.debugOn /\ rl.call = "none")
       /\ rl.call # "none" <=> rl.debugOn # rl.before.debugOn

C26_Witness ==
  /\ rl.last = "reloaded" /\ rl.n = 2 /\ rl.call = "Disable"
  /\ rl.authz = {"p"} /\ rl.before.authz = {}

\* ------------------------------------- claims about the order of startup
\* C27: listener resolution, supervisor bootstrap, daemon core, plugin
\* validation, metrics, cluster, build backend, routes, serving: a step has
\* happened only when the one before it succeeded, and after a failed step
\* none of the later ones has.
C27_StartupOrder ==
  /\ sub.supervisor # "none" =>
       (llErr = Nil /\ lss # <<>> /\ pc \notin {"start", "loadListeners", "afterLoad"})
  /\ sub.core # "none" => sub.supervisor # "none"
  /\ pc = "validateAuthz" => sub.core = "running"
  /\ "cli.d" \in done => sub.core # "none"
  /\ "metrics" \in done => "cli.d" \in done
  /\ sub.cluster # "none" => "metrics" \in done
  /\ sub.buildkit # "none" => sub.cluster \in {"started", "cleaned"}
  /\ http.handler => sub.buildkit \in {"running", "closed"}
  /\ ReachedServing => http.handler
  /\ failedAt = "loadListeners" => sub = NoSub
  /\ failedAt = "initContainerd" => sub = NoSub
  /\ failedAt = "newDaemon" => (sub.core = "none" /\ "cli.d" \notin done)
  /\ failedAt = "validateAuthz" => "metrics" \notin done
  /\ failedAt = "metrics" => sub.cluster = "none"
  /\ failedAt = "cluster" => sub.buildkit = "none"
  /\ failedAt = "buildkit" => ~http.handler

C27_Witness ==
  /\ pc = "wait" /\ sub.supervisor = "managed" /\ sub.core = "running"
  /\ sub.cluster = "started" /\ sub.buildkit = "running"
  /\ http.handler /\ Len(task) >= 2 /\ "metrics" \in done

\* C28 as stated: the middleware chain is installed before the CDI driver
\* is registered, and both before the daemon core exists and before any
\* serve task runs.
C28_Original ==
  /\ "cdi" \in done => "middlewares" \in done
  /\ sub.core # "none" => {"cdi", "middlewares"} \subseteq done
  /\ ReachedServing => {"cdi", "middlewares"} \subseteq done

\* C28, amended: the CDI driver is registered first, the middleware chain is
\* installed next, and both before the daemon core exists, before the
\* handler is set and before any serve task runs.
C28_CDIThenMiddlewares ==
  /\ "middlewares" \in done => "cdi" \in done
  /\ pc = "initMiddlewares" => ("cdi" \in done /\ "middlewares" \notin done)
  /\ sub.core # "none" => {"cdi", "middlewares"} \subseteq done
  /\ http.handler => {"cdi", "middlewares"} \subseteq done
  /\ ReachedServing => {"cdi", "middlewares"} \subseteq done

C28_Witness ==
  /\ pc = "newDaemon" /\ {"cdi", "middlewares"} \subseteq done
  /\ sub.core = "none" /\ ~http.handler

\* C29: RestartSwarmContainers has run only when the cluster was created and
\* started; when cluster creation or start fails it does not run and
\* start() returns the cluster error.
C29_RestartAfterClusterStart ==
  /\ "restartSwarm" \in done => sub.cluster \in {"started", "cleaned"}
  /\ pc = "buildkit" => "restartSwarm" \in done
  /\ failedAt = "cluster" =>
       /\ "restartSwarm" \notin done
       /\ sub.cluster \in {"none", "created"}
       /\ result \in {<<"failed to start cluster component", "cluster.New error">>,
                       <<"failed to start cluster component", "cluster start error">>}

C29_Witness ==
  /\ Returned /\ failedAt = "cluster" /\ sub.cluster = "created"
  /\ "restartSwarm" \notin done

\* C30: httpServer.Handler is written in one step only, which happens
\* once, before any serve task exists; the handler never changes afterwards.
C30_HandlerSetOnce ==
  /\ [][http'.handler # http.handler =>
          (pc = "routers" /\ pc' = "serve" /\ ~http.handler /\ task = <<>>)]_vars
  /\ [][(pc = "routers" /\ pc' # pc) => (http'.handler /\ pc' = "serve")]_vars
  /\ [][(pc # "routers" /\ pc' = "routers") => (pc = "buildkit" /\ ~http.handler)]_vars
  /\ [](pc = "serve" => (http.handler /\ task = <<>>))
  /\ [](ReachedServing => http.handler)

C30_Witness ==
  /\ pc = "wait" /\ http.handler /\ ~http.inShutdown
  /\ Len(task) = 2 /\ task[1] = "serving" /\ task[2] = "done"

\* ------------------------------------- claims about the runtime supervisor
\* C31: when a managed supervisor was started, its WaitTimeout is called
\* exactly once, with 10 seconds, on every path on which start() returns
\* after the bootstrap; when an existing supervisor was adopted, only its
\* address is stored and no stop function is deferred or called.
C31_SupervisorStoppedOnce ==
  /\ [](\A i \in 1..Len(sub.waits) : sub.waits[i] = ContainerdWaitSeconds)
  /\ [](Len(sub.waits) <= 1)
  /\ []((Returned /\ sub.containerdAddr = "managed") =>
          sub.waits = <<ContainerdWaitSeconds>>)
  /\ []((sub.containerdAddr = "managed" /\ sub.waits = <<>>) =>
          Len(SelectSeq(defers, LAMBDA d : d = "containerd")) = 1)
  /\ [](sub.waits # <<>> => "containerd" \notin Range(defers))
  /\ [](sub.containerdAddr = "system" =>
          /\ sub.supervisor = "external" /\ sub.waits = <<>>
          /\ "containerd" \notin Range(defers))
  /\ [](sub.containerdAddr = "unset" => (sub.supervisor = "none" /\ sub.waits = <<>>))
  /\ [][sub'.waits # sub.waits =>
          (sub.supervisor = "managed" /\ pc = "unwind" /\ ctxCancelled')]_vars

C31_Witness ==
  /\ Returned /\ failedAt = "cluster" /\ sub.containerdAddr = "managed"
  /\ sub.waits = <<ContainerdWaitSeconds>> /\ sub.supervisor = "stopped"

\* ---------------------------------- claims about failures during teardown
\* C32: a failure of the graceful HTTP shutdown, of the build backend's
\* close or of the tracing flush is only logged: the step completes as it
\* would otherwise, the value start() returns is the one the serve tasks
\* decided, and start() goes on to return.
C32_BestEffortTeardown ==
  /\ [][("log: Failed to close buildkit" \in done' \ done) =>
          /\ pc = "shutdownBuildKit" /\ pc' = "cancel"
          /\ sub'.buildkit = "closed" /\ result' = result]_vars
  /\ [][("log: Failed to shutdown OTEL tracing" \in done' \ done) =>
          /\ pc = "result" /\ pc' = "unwind" /\ errAPI = <<>>
          /\ "otelShutdown" \in done' /\ result' = Nil]_vars
  /\ [][("log: Error shutting down http server" \in done' \ done) =>
          /\ shutdownTask = "draining" /\ shutdownTask' = "done"
          /\ pc' = pc /\ result' = result]_vars
  /\ []((Returned /\ ReachedServing) => (result = Nil <=> firstSender = 0))
  /\ []((Returned /\ "log: Failed to close buildkit" \in done) => ctxCancelled)
  /\ ({"log: Failed to close buildkit", "log: Failed to shutdown OTEL tracing",
        "log: Error shutting down http server"} \cap done # {}) ~> Returned

C32_Witness ==
  /\ Returned /\ result = Nil
  /\ {"log: Failed to close buildkit", "log: Failed to shutdown OTEL tracing",
      "log: Error shutting down http server"} \subseteq done

\* ------------------------------------- claims about a stop during startup
\* Every serve task has returned the deliberate-shutdown result, no
\* connection was accepted, the teardown has run and start() returned nil.
AllServeClosedUnused ==
  /\ Returned /\ result = Nil /\ failedAt = ""
  /\ Len(task) = Len(lss) /\ Len(lss) > 0
  /\ \A j \in 1..Len(lss) : task[j] = "done" /\ taskErr[j] = ErrServerClosed
  /\ ~busy /\ errAPI = <<>> /\ firstSender = 0
  /\ TeardownDone

\* C33 as stated: after a stop() that came between the trap and the start of
\* the serve tasks, stop() aborts nothing, and from the start of the serve
\* tasks on every Serve returns the deliberate-shutdown result without a
\* connection accepted, the teardown runs and start() returns nil (unless
\* the core's shutdown blocks for ever).
C33_Original ==
  /\ [][stopCalls' # stopCalls =>
          (pc' = pc /\ failedAt' = failedAt /\ defers' = defers)]_vars
  /\ (pc = "serve" /\ ShutdownRequested) ~> (AllServeClosedUnused \/ CoreBlocked)

\* C33, amended: stop() aborts nothing; when the shutdown goroutine has
\* called Shutdown before the serve tasks start, every Serve returns the
\* deliberate-shutdown result without a connection accepted, the teardown
\* runs and start() returns nil; when the serve tasks start first, they
\* serve until Shutdown is called, and start() still returns, with nil
\* unless a serve task failed in between.
C33_StopBeforeServing ==
  /\ [][stopCalls' # stopCalls =>
          (pc' = pc /\ failedAt' = failedAt /\ defers' = defers)]_vars
  /\ [][(ShutdownRequested /\ pc # pc' /\ failedAt' = "" /\ pc \in
            {"preNotifyReady", "tracing", "initMiddlewares", "newDaemon",
             "validateAuthz", "metrics", "cluster", "buildkit", "routers"})
          => pc' \notin {"unwind", "returned"}]_vars
  /\ []((pc = "serve" /\ http.inShutdown) =>
          (ShutdownRequested /\ http.stoppedBy = "Shutdown" /\ ~busy))
  /\ (pc = "serve" /\ http.inShutdown) ~> (AllServeClosedUnused \/ CoreBlocked)
  /\ (pc = "serve" /\ ShutdownRequested) ~>
       \/ /\ Returned /\ TeardownDone /\ Len(task) = Len(lss)
          /\ result = Nil <=> FatalTasks = {}
       \/ CoreBlocked

\* Shutdown ran before the serve tasks started: one Serve has returned at
\* once, the listener of another is still open.
C33_Witness ==
  /\ pc = "wait" /\ ShutdownRequested /\ http.stoppedBy = "Shutdown" /\ ~busy
  /\ Len(task) = 2 /\ task[1] = "done" /\ taskErr[1] = ErrServerClosed
  /\ task[2] = "serving" /\ sockets[lss[2]].open

\* ----------------------------------------- claims about the bound listeners
\* C34: when loadListeners succeeded, every listener it bound is closed by
\* the time start() has returned, whatever the path.
C34_ListenersClosedOnReturn ==
  (Returned /\ llErr = Nil /\ lss # <<>>) =>
    \A j \in 1..Len(lss) : ~sockets[lss[j]].open

\* ------------------------------------- claims about reloads during startup
\* The state after loadListeners that the reload checks start from is one
\* start() reaches.
LoadedStateReached == LoadedState /\ rl = NoRL

\* C35: reloadConfig runs only after the reload trap is installed, which is
\* after the daemon core was stored in cli.d and the handler was set; a
\* reload signal before that changes no configuration.
C35_ReloadOnlyAfterTrap ==
  /\ [](("reloadTrap" \in done) =>
          ("cli.d" \in done /\ sub.core = "running" /\ http.handler))
  /\ []((rl.phase # "idle" \/ rl.last # "none" \/ rl.n > 0) =>
          ("reloadTrap" \in done /\ "cli.d" \in done /\ sub.core # "none"))
  /\ [][("reloadTrap" \notin done /\ rl' # rl) =>
          (Snapshot(rl') = Snapshot(rl) /\ rl' = [rl EXCEPT !.early = @ + 1])]_vars
  /\ [][Snapshot(rl') # Snapshot(rl) => "cli.d" \in done]_vars

C35_Witness ==
  /\ rl.early >= 1 /\ rl.last = "reloaded" /\ rl.conf # rl.before.conf
  /\ "cli.d" \in done /\ pc \in {"serve", "wait"}

\* ---------------------------------------------- claims about GetContainer
\* The live container that the replica records under the name p.
NamedLive(p) ==
  LET full == IF p # <<>> /\ p[1] # "/" THEN <<"/">> \o p ELSE p
  IN IF full \in ContainerNames /\ gc.names[full] \in gc.containers
     THEN <<gc.names[full]>> ELSE <<>>
Matching(p) == {id \in gc.index : HasPrefix(id, p)}

\* C36: GetContainer returns a container and no error, or no container and
\* an error; an empty identifier is an error; an exact live ID wins, then a
\* name of a live container, then the unique indexed ID with that prefix,
\* which gives a not-found error when the store does not hold it.
C36_GetContainerPrecedence ==
  gc.calls > 0 =>
    LET p == gc.arg
        r == gc.ret
    IN /\ \/ r.ctr # <<>> /\ r.err = "nil"
          \/ r.ctr = <<>> /\ r.err # "nil"
       /\ p = <<>> => r = Ret(<<>>, "invalid: identifier")
       /\ p \in gc.containers => r = Ret(<<p>>, "nil")
       /\ (p # <<>> /\ p \notin gc.containers /\ NamedLive(p) # <<>>) =>
            r = Ret(NamedLive(p), "nil")
       /\ (p # <<>> /\ p \notin gc.containers /\ NamedLive(p) = <<>>) =>
            /\ Matching(p) = {} => r = Ret(<<>>, "not found")
            /\ Cardinality(Matching(p)) > 1 => r = Ret(<<>>, "invalid: ambiguous")
            /\ \A id \in Matching(p) :
                 Matching(p) = {id} =>
                   r = IF id \in gc.containers THEN Ret(<<id>>, "nil")
                       ELSE Ret(<<>>, "not found")

\* A prefix that only the replica knows, while a name and a full ID exist.
C36_Witness ==
  /\ gc.calls > 0 /\ gc.arg = <<"b">> /\ gc.index = {<<"b", "a">>, <<"a", "a">>}
  /\ <<"b", "a">> \notin gc.containers /\ gc.ret = Ret(<<>>, "not found")

Bytes(s) == SelectSeq(s, LAMBDA e : e > 0)
FlushCount(s) == Len(SelectSeq(s, LAMBDA e : e = 0))
NotifyStep == wcf'.notifies = wcf.notifies + 1

\* C38: no byte reaches the underlying writer before notify was called; the
\* first notify writes the buffered bytes in the order they were written;
\* bytes written afterwards go straight through, behind the buffered ones;
\* a later notify writes nothing.
C38_BufferedUntilNotify ==
  /\ [](wcf.notifies = 0 => (Bytes(wcf.out) = <<>> /\ wcf.buf = wcf.req))
  /\ [](Bytes(wcf.out) \o wcf.buf \o (IF wcf.op = "write" THEN <<wcf.b>> ELSE <<>>)
          = wcf.req)
  /\ [](wcf.req = [k \in 1..wcf.writes |-> k])
  /\ [](wcf.ready => wcf.buf = <<>>)
  /\ [][(NotifyStep /\ wcf.notifies = 0) =>
          (Bytes(wcf'.out) = wcf.buf /\ wcf'.buf = <<>> /\ wcf'.ready)]_vars
  /\ [][(NotifyStep /\ wcf.notifies > 0) => wcf'.out = wcf.out]_vars
  /\ [][(wcf.ready /\ wcf'.writes # wcf.writes) =>
          (wcf'.buf = <<>> /\ wcf'.op = "write" /\ wcf'.b = wcf'.writes)]_vars

C38_Witness ==
  /\ wcf.notifies = 2 /\ wcf.writes = 2 /\ wcf.op = "none"
  /\ Bytes(wcf.out) = <<1, 2>> /\ wcf.early = 0 /\ wcf.flushes = 0

\* C39: a Flush before notify is not forwarded but remembered; Flushed() is
\* true from the first Flush on; the first notify forwards one flush exactly
\* when a Flush was requested before; a Flush after notify is forwarded.
C39_FlushRemembered ==
  /\ [](wcfFlushed(wcf) <=> wcf.flushes > 0)
  /\ [](wcf.notifies = 0 => FlushCount(wcf.out) = 0)
  /\ [][(NotifyStep /\ wcf.notifies = 0) =>
          FlushCount(wcf'.out) = IF wcf.flushes > 0 THEN 1 ELSE 0]_vars
  /\ [][(NotifyStep /\ wcf.notifies > 0) => wcf'.out = wcf.out]_vars
  /\ [](wcf.ready =>
          FlushCount(wcf.out) + (IF wcf.op = "flush" THEN 1 ELSE 0)
            = (wcf.flushes - wcf.early) + (IF wcf.early > 0 THEN 1 ELSE 0))
  /\ [][(wcf.ready /\ wcf'.flushes # wcf.flushes) => wcf'.op = "flush"]_vars

C39_Witness ==
  /\ wcf.early = 2 /\ wcf.notifies = 1 /\ wcf.writes = 1
  /\ wcf.out = <<1, 0>> /\ wcfFlushed(wcf)

\* ------------------------------------------------- claims about postBuild
InStream == \E i \in 1..Len(wcf.out \o wcf.buf) : (wcf.out \o wcf.buf)[i] = ErrorChunk
Failed == bh.pc = "returned" /\ bh.err # "none"

====
